---- MODULE Spec2Model ----
(***************************************************************************)
(* Export/retrieval orchestration of the VTEX Master Data export route     *)
(* and the fixed-window rate limiter that guards it.                       *)
(*                                                                         *)
(* Handlers are asynchronous functions run by a single-threaded event      *)
(* loop: one action is the code a handler runs between two await points    *)
(* (from the arrival of a remote response up to the next fetch or to the   *)
(* handler's return).                                                      *)
(***************************************************************************)
EXTENDS Integers, Sequences, FiniteSets, TLC

VARIABLES
    rateLimitStore,   \* Map key -> RateLimitEntry (process-wide)
    now,              \* Date.now()
    lastCheck,        \* the last checkRateLimit call and what it returned
    admitted,         \* per key: checks allowed since its window was opened
    windowEnd,        \* per key: end of the window opened by the oracle
    recent,           \* per key and age: checks allowed `age` time units ago
    pc,               \* where the export handler is suspended
    body,             \* POST: const body (the parsed request body)
    version,          \* POST: const version
    schema,           \* POST: const schema (after normalizeValue)
    scrollResult,     \* POST: const scrollResult
    token,            \* exportV1Scroll: let token
    visitedTokens,    \* exportV1Scroll: const visitedTokens
    visitedBefore,    \* visitedTokens when the last scroll response arrived
    batches,          \* let batches of the running strategy
    page,             \* let page of the running strategy
    allRecords,       \* const allRecords of the running strategy
    schemaToUse,      \* exportV2Search: const schemaToUse
    inflight,         \* the remote call the handler awaits
    response,         \* the remote response the handler processed last
    reply,            \* the HTTP response of the export handler
    calls,            \* remote calls issued so far, per endpoint
    pageSize,         \* documents POST: const pageSize
    queryResult,      \* documents POST: let queryResult
    schemas,          \* documents POST: const schemas (the names listed)
    probe,            \* documents POST: position of the for loop in schemas
    signal,           \* request.signal, which no handler reads
    entities,         \* entities POST: const entities
    settled,          \* entities POST: the promises given to Promise.allSettled
    other             \* the locals of a second export, suspended at an await

rlVars == <<rateLimitStore, now, lastCheck, admitted, windowEnd, recent>>

exportVars == <<pc, body, version, schema, scrollResult, token, visitedTokens,
                visitedBefore, batches, page, allRecords, schemaToUse, inflight,
                response, reply, calls>>

docVars == <<pageSize, queryResult, schemas, probe>>

listingVars == <<entities, settled>>

vars == <<rateLimitStore, now, lastCheck, admitted, windowEnd, recent,
          pc, body, version, schema, scrollResult, token, visitedTokens, visitedBefore,
          batches, page, allRecords, schemaToUse, inflight, response, reply, calls,
          pageSize, queryResult, schemas, probe, signal, entities, settled, other>>

(***************************************************************************)
(* Bounds of the model.                                                    *)
(***************************************************************************)
MaxTime == 5          \* the clock runs from 0 to MaxTime
MaxN == 2             \* maxRequests ranges over 1..MaxN
MaxW == 2             \* windowMs ranges over 1..MaxW

NoKey == << >>

MaxFirst(a, b) == a

Max(a, b) == IF a >= b THEN a ELSE b

(***************************************************************************)
(* Rate limiter: src/lib/security.ts                                       *)
(***************************************************************************)
SWEEP_THRESHOLD == 1000

\* the two routes share the buckets of the export
RateLimitKeyShared(operation, ip) == <<"export", ip>>

\* rateLimitStore keys are the strings `${operation}:${ip}`, modelled as pairs.
RateLimitKey(operation, ip) == <<operation, ip>>

RLKeys == {RateLimitKey("export", "10.0.0.1"), RateLimitKey("export", "unknown")}

\* the keys whose allowed checks the oracle counts
TrackedKeys ==
    RLKeys \cup {RateLimitKey("documents", "10.0.0.1"),
                 RateLimitKey("documents", "unknown")}

MapSetKeepsOld(store, key, entry) ==
    [k \in (DOMAIN store) \cup {key} |-> IF k \in DOMAIN store THEN store[k] ELSE entry]

\* Map.set
MapSet(store, key, entry) ==
    [k \in (DOMAIN store) \cup {key} |-> IF k = key THEN entry ELSE store[k]]

WindowElapsedStrict(existing, t) == existing.resetAt < t

\* existing.resetAt <= now
WindowElapsed(existing, t) == existing.resetAt <= t

QuotaReachedOffByOne(existing, maxRequests) == existing.count > maxRequests

QuotaReachedNever(existing, maxRequests) == FALSE

\* existing.count >= maxRequests
QuotaReached(existing, maxRequests) == existing.count >= maxRequests

\* the sweep also deletes the entries whose window ends at the next instant
SweepEarly(store, t) ==
    [k \in {x \in DOMAIN store : store[x].resetAt > t + 1} |-> store[k]]

\* the sweep loop: delete every entry whose resetAt <= now
SweepExpired(store, t) ==
    [k \in {x \in DOMAIN store : ~WindowElapsed(store[x], t)} |-> store[k]]

\* checkRateLimit(key, maxRequests, windowMs) at time t: the store it leaves
\* and the result it returns.
CheckRateLimit(store, t, key, maxRequests, windowMs) ==
    IF key \notin DOMAIN store \/ WindowElapsed(store[key], t)
    THEN [store  |-> MapSet(store, key, [count |-> 1, resetAt |-> t + windowMs]),
          result |-> [allowed |-> TRUE, retryAfterMs |-> windowMs]]
    ELSE LET existing == store[key] IN
         IF QuotaReached(existing, maxRequests)
         THEN [store  |-> store,
               result |-> [allowed |-> FALSE,
                           retryAfterMs |-> Max(0, existing.resetAt - t)]]
         ELSE LET bumped == MapSet(store, key,
                                   [existing EXCEPT !.count = existing.count + 1])
                  swept  == IF Cardinality(DOMAIN bumped) > SWEEP_THRESHOLD
                            THEN SweepExpired(bumped, t)
                            ELSE bumped
              IN [store  |-> swept,
                  result |-> [allowed |-> TRUE,
                              retryAfterMs |-> Max(0, existing.resetAt - t)]]

\* extractClientIp: forwardedFor is the x-forwarded-for header split at ","
\* (empty when the header is absent or empty), realIp the x-real-ip header
\* ("" when absent or empty).
ExtractClientIp(headers) ==
    IF headers.forwardedFor # << >> THEN headers.forwardedFor[1]
    ELSE IF headers.realIp # "" THEN headers.realIp
    ELSE "unknown"

(***************************************************************************)
(* Input validation: src/lib/security.ts.  A string is the sequence of its *)
(* character codes.                                                        *)
(***************************************************************************)
IsAlnum(c) == c \in 48..57 \/ c \in 65..90 \/ c \in 97..122

\* what String.prototype.trim strips (the codes below 256)
IsWhitespace(c) == c \in {9, 10, 11, 12, 13, 32, 160}

RECURSIVE TrimStart(_)
TrimStart(s) ==
    IF s # << >> /\ IsWhitespace(Head(s)) THEN TrimStart(Tail(s)) ELSE s

RECURSIVE TrimEnd(_)
TrimEnd(s) ==
    IF s # << >> /\ IsWhitespace(s[Len(s)])
    THEN TrimEnd(SubSeq(s, 1, Len(s) - 1))
    ELSE s

\* normalizeValue: (value ?? "").trim(); an absent field is the empty string
normalizeValue(value) == TrimEnd(TrimStart(value))

\* /[\x00-\x1F\x7F]/.test(value)
hasControlChars(value) ==
    \E i \in 1..Len(value) : value[i] \in 0..31 \/ value[i] = 127

\* /^[a-zA-Z0-9][a-zA-Z0-9-]{1,62}[a-zA-Z0-9]$/
IsVendorName(s) ==
    /\ Len(s) >= 3
    /\ Len(s) <= 64
    /\ IsAlnum(s[1])
    /\ IsAlnum(s[Len(s)])
    /\ \A i \in 2..(Len(s) - 1) : IsAlnum(s[i]) \/ s[i] = 45

\* /^[a-zA-Z0-9_\-]{1,64}$/
IsIdentifier(s) ==
    /\ Len(s) >= 1
    /\ Len(s) <= 64
    /\ \A i \in 1..Len(s) : IsAlnum(s[i]) \/ s[i] = 95 \/ s[i] = 45

NoError == ""

validateCredentialsNoControlCheck(accountName, appKey, appToken) ==
    IF accountName = << >> \/ appKey = << >> \/ appToken = << >>
    THEN "Informe vendor, app key e app token."
    ELSE IF ~IsVendorName(accountName) THEN "Vendor invalido."
    ELSE IF Len(appKey) > 256 THEN "Credenciais invalidas."
    ELSE NoError

validateCredentials(accountName, appKey, appToken) ==
    IF accountName = << >> \/ appKey = << >> \/ appToken = << >>
    THEN "Informe vendor, app key e app token."
    ELSE IF ~IsVendorName(accountName) THEN "Vendor invalido."
    ELSE IF \/ Len(appKey) > 256
            \/ Len(appToken) > 512
            \/ hasControlChars(appKey)
            \/ hasControlChars(appToken)
         THEN "Credenciais invalidas."
    ELSE NoError

validateEntityIdentifier(value, fieldLabel) ==
    IF value = << >> THEN "obrigatorio"
    ELSE IF ~IsIdentifier(value) THEN "invalido"
    ELSE NoError

(***************************************************************************)
(* Export route: the constants, the remote calls and their responses.      *)
(***************************************************************************)
MAX_BATCHES == 200
PAGE_SIZE_V1 == 100
PAGE_SIZE_V2 == 100
EXPORT_MAX_REQUESTS == 30
EXPORT_WINDOW_MS == 60000

ShortLen == 50        \* the length of a batch shorter than a page
SampleTotal == 250    \* a total the remote may report on every response
MaxSchemas == 2       \* the schema listing holds at most MaxSchemas entries

\* the status codes of a non-success remote response
FailStatuses == {404, 500}

\* response.headers.get("x-vtex-md-token") ?? undefined: a token is a positive
\* number, "" is EmptyToken, no header is Undefined
Undefined == -1
EmptyToken == 0

\* names as strings
S1 == <<115, 49>>
S2 == <<115, 50>>
NoSchema == << >>

\* a response header: absent, a decimal number, or any other text
HAbsent == [kind |-> "absent", n |-> 0]
HNum(n) == [kind |-> "num", n |-> n]
HText == [kind |-> "text", n |-> 0]

NoTotal == [known |-> FALSE, n |-> 0]
Total(n) == [known |-> TRUE, n |-> n]

\* parseTotalFromHeaders: mdTotal is x-vtex-md-total (kind "num": it converts
\* to a finite number), contentRange is rest-content-range (kind "num": it
\* ends in /<digits>)
parseTotalFromHeaders(headers) ==
    IF headers.mdTotal.kind = "num" THEN Total(headers.mdTotal.n)
    ELSE IF headers.contentRange.kind = "absent" THEN NoTotal
    ELSE IF headers.contentRange.kind # "num" THEN NoTotal
    ELSE Total(headers.contentRange.n)

NoRequest ==
    [endpoint |-> "none", token |-> Undefined, from |-> 0, to |-> 0,
     page |-> 0, size |-> 0, schema |-> NoSchema]

\* every scroll call is sent without a token
ScrollRequestNoToken(tok, sch) ==
    [NoRequest EXCEPT !.endpoint = "scroll", !.size = PAGE_SIZE_V1, !.schema = sch]

\* GET /scroll?_size=100[&_schema=] with X-VTEX-MD-TOKEN when token is set
ScrollRequest(tok, sch) ==
    [NoRequest EXCEPT !.endpoint = "scroll", !.token = tok,
                      !.size = PAGE_SIZE_V1, !.schema = sch]

\* GET /search?_sort=id ASC[&_schema=] with REST-Range: resources=from-to
SearchRequest(pg, sch) ==
    LET from == (pg - 1) * PAGE_SIZE_V1
        to   == from + PAGE_SIZE_V1 - 1
    IN [NoRequest EXCEPT !.endpoint = "search", !.from = from, !.to = to,
                         !.schema = sch]

PagedRequestFromZero(pg, sch) ==
    [NoRequest EXCEPT !.endpoint = "paged", !.page = pg - 1,
                      !.size = PAGE_SIZE_V2, !.schema = sch]

\* GET /search?_page=&_size=100&_schema=
PagedRequest(pg, sch) ==
    [NoRequest EXCEPT !.endpoint = "paged", !.page = pg,
                      !.size = PAGE_SIZE_V2, !.schema = sch]

\* GET /schemas
SchemasRequest == [NoRequest EXCEPT !.endpoint = "schemas"]

NoHeaders == [mdTotal |-> HAbsent, contentRange |-> HAbsent]

\* a response: the call it answers, response.ok and response.status, the
\* length of the JSON array in its body (len) or the names of the listed
\* schemas (names), and the headers the strategies read
NoResponse ==
    [endpoint |-> "none", ok |-> TRUE, status |-> 0, len |-> 0,
     nextToken |-> Undefined, headers |-> NoHeaders, names |-> << >>]

OkResponse(endpoint) == [NoResponse EXCEPT !.endpoint = endpoint, !.status = 200]

FailResponses(endpoint) ==
    {[NoResponse EXCEPT !.endpoint = endpoint, !.ok = FALSE, !.status = s] :
        s \in FailStatuses}

(***************************************************************************)
(* Records.  The remote serves a data set in a fixed order, so a record is *)
(* (endpoint, offset) and a batch is a run of consecutive offsets; a       *)
(* sequence of records is kept as the sequence of its maximal runs.        *)
(***************************************************************************)
Run(src, lo, len) == [src |-> src, lo |-> lo, hi |-> lo + len - 1]

\* the batch replaces what was gathered before it
PushLatest(all, src, lo, len) ==
    IF len = 0 THEN all ELSE <<Run(src, lo, len)>>

\* allRecords.push(...chunk)
Push(all, src, lo, len) ==
    IF len = 0 THEN all
    ELSE IF all # << >> /\ all[Len(all)].src = src /\ all[Len(all)].hi + 1 = lo
         THEN [all EXCEPT ![Len(all)].hi = lo + len - 1]
         ELSE Append(all, Run(src, lo, len))

RECURSIVE Length(_)
\* allRecords.length
Length(all) ==
    IF all = << >> THEN 0
    ELSE (Head(all).hi - Head(all).lo + 1) + Length(Tail(all))

(***************************************************************************)
(* Results of a strategy and replies of the handler.                       *)
(***************************************************************************)
NoResult ==
    [status |-> 0, error |-> "", records |-> << >>, batches |-> 0,
     truncated |-> FALSE, strategy |-> "none"]

\* { records, batches, truncated, strategy }
Success(records, n, truncated, strategy) ==
    [NoResult EXCEPT !.status = 200, !.records = records, !.batches = n,
                     !.truncated = truncated, !.strategy = strategy]

FailureGeneric(error, status) == [NoResult EXCEPT !.status = 500, !.error = error]

\* { error, status }
Failure(error, status) == [NoResult EXCEPT !.status = status, !.error = error]

IsError(result) == result.error # ""

IsSuccess(result) == result.status = 200 /\ result.error = ""

(***************************************************************************)
(* The handler's state before a request arrives.                           *)
(***************************************************************************)
NoCalls == [scroll |-> 0, search |-> 0, paged |-> 0, schemas |-> 0]

\* no body has been read
NoBody ==
    [accountName |-> << >>, appKey |-> << >>, appToken |-> << >>,
     version |-> "none", entity |-> << >>, schema |-> << >>]

\* fetchRecordsBySchema has not returned yet
NoQuery == [ok |-> FALSE, status |-> 0, len |-> 0, from |-> 0,
            total |-> [known |-> FALSE, n |-> 0], schemaUsed |-> << >>]

\* request.signal of a connection that is open; `seen` are the remote calls
\* issued when the signal fired
NoSignal == [aborted |-> FALSE, seen |-> NoCalls]

\* the locals of an export whose request has not arrived; `table` is the
\* rate-limit table as the handler left it when it was suspended
IdleLocals ==
    [pc |-> "idle", body |-> NoBody, version |-> "none", schema |-> NoSchema,
     scrollResult |-> NoResult, token |-> Undefined, visitedTokens |-> {},
     visitedBefore |-> {}, batches |-> 0, page |-> 0, allRecords |-> << >>,
     schemaToUse |-> NoSchema, inflight |-> NoRequest, response |-> NoResponse,
     reply |-> NoResult, calls |-> NoCalls, table |-> << >>]

ExportIdle ==
    /\ signal = NoSignal
    /\ other = [IdleLocals EXCEPT !.table = rateLimitStore]
    /\ entities = << >>
    /\ settled = << >>
    /\ pageSize = 0
    /\ queryResult = NoQuery
    /\ schemas = << >>
    /\ probe = 0
    /\ pc = "idle"
    /\ body = NoBody
    /\ version = "none"
    /\ schema = NoSchema
    /\ scrollResult = NoResult
    /\ token = Undefined
    /\ visitedTokens = {}
    /\ visitedBefore = {}
    /\ batches = 0
    /\ page = 0
    /\ allRecords = << >>
    /\ schemaToUse = NoSchema
    /\ inflight = NoRequest
    /\ response = NoResponse
    /\ reply = NoResult
    /\ calls = NoCalls

\* One call of checkRateLimit and the oracle's account of it.
RateLimited(key, maxRequests, windowMs) ==
    LET out      == CheckRateLimit(rateLimitStore, now, key, maxRequests, windowMs)
        inWindow == admitted[key] > 0 /\ now < windowEnd[key]
    IN /\ rateLimitStore' = out.store
       /\ lastCheck' = [key |-> key, at |-> now, maxRequests |-> maxRequests,
                        windowMs |-> windowMs, allowed |-> out.result.allowed,
                        retryAfterMs |-> out.result.retryAfterMs,
                        inWindow |-> inWindow, admittedBefore |-> admitted[key]]
       /\ admitted' = [admitted EXCEPT ![key] =
                          IF ~out.result.allowed THEN @
                          ELSE IF inWindow THEN @ + 1 ELSE 1]
       /\ windowEnd' = [windowEnd EXCEPT ![key] =
                          IF inWindow THEN @ ELSE now + windowMs]
       /\ recent' = [recent EXCEPT ![key][0] =
                        IF out.result.allowed THEN @ + 1 ELSE @]
       /\ UNCHANGED now

(***************************************************************************)
(* SpecRL: checkRateLimit called at arbitrary times on a few keys, always  *)
(* with the same maxRequests and windowMs (lastCheck records them).        *)
(* admitted and windowEnd are an oracle that never reads the store: a      *)
(* window is opened by the first check at or after the end of the previous *)
(* one and lasts windowMs.                                                 *)
(***************************************************************************)
RLLimits == {[maxRequests |-> n, windowMs |-> w] : n \in 0..MaxN, w \in 1..MaxW}

\* no check has been allowed yet
NoneRecent == [k \in TrackedKeys |-> [age \in 0..MaxW |-> 0]]

InitRL ==
    /\ rateLimitStore = << >>
    /\ now = 0
    /\ \E lim \in RLLimits :
          lastCheck = [key |-> NoKey, at |-> 0, maxRequests |-> lim.maxRequests,
                       windowMs |-> lim.windowMs, allowed |-> TRUE,
                       retryAfterMs |-> 0, inWindow |-> FALSE, admittedBefore |-> 0]
    /\ admitted = [k \in TrackedKeys |-> 0]
    /\ windowEnd = [k \in TrackedKeys |-> 0]
    /\ recent = NoneRecent
    /\ ExportIdle

\* One call of checkRateLimit(key, maxRequests, windowMs).
Check(key) ==
    /\ UNCHANGED <<signal, listingVars, other>>
    /\ RateLimited(key, lastCheck.maxRequests, lastCheck.windowMs)
    /\ UNCHANGED exportVars
    /\ UNCHANGED docVars

\* Time passes between two calls.
Tick ==
    /\ UNCHANGED <<signal, listingVars, other>>
    /\ now < MaxTime
    /\ now' = now + 1
    /\ recent' = [k \in TrackedKeys |->
                    [age \in 0..MaxW |->
                        IF age = 0 \/ age > lastCheck.windowMs THEN 0
                        ELSE recent[k][age - 1]]]
    /\ UNCHANGED <<rateLimitStore, lastCheck, admitted, windowEnd>>
    /\ UNCHANGED exportVars
    /\ UNCHANGED docVars

NextRL ==
    \/ \E key \in RLKeys : Check(key)
    \/ Tick

SpecRL == InitRL /\ [][NextRL]_vars

(***************************************************************************)
(* SpecSweep: the same calls, made while the table holds the entries of    *)
(* about SWEEP_THRESHOLD other clients.  Their windows were opened at time *)
(* 0; the first client's window outlasts the clock, the others' windows    *)
(* are one time unit long.                                                 *)
(***************************************************************************)
\* the key of the i-th other client (its address is 10.1.<i>)
OtherKey(i) == <<"export", "10.1", i>>

OtherEntries(n) ==
    [k \in {OtherKey(i) : i \in 1..n} |->
        [count |-> 1, resetAt |-> IF k[3] = 1 THEN MaxTime + 1 ELSE 1]]

InitSweep ==
    /\ \E n \in {SWEEP_THRESHOLD - 1, SWEEP_THRESHOLD} :
          rateLimitStore = OtherEntries(n)
    /\ now = 0
    /\ \E lim \in RLLimits :
          lastCheck = [key |-> NoKey, at |-> 0, maxRequests |-> lim.maxRequests,
                       windowMs |-> lim.windowMs, allowed |-> TRUE,
                       retryAfterMs |-> 0, inWindow |-> FALSE, admittedBefore |-> 0]
    /\ admitted = [k \in TrackedKeys |-> 0]
    /\ windowEnd = [k \in TrackedKeys |-> 0]
    /\ recent = NoneRecent
    /\ ExportIdle

\* the checks are those of one client
NextSweep ==
    \/ Check(RateLimitKey("export", "10.0.0.1"))
    \/ Tick

SpecSweep == InitSweep /\ [][NextSweep]_vars

(***************************************************************************)
(* What the remote may answer.  A response that lets a loop go on carries  *)
(* a full page; totals are reported around the number of records served.   *)
(***************************************************************************)
\* the scroll calls the remote may answer with a non-success status
ScrollFailPoints == {1, MAX_BATCHES}

\* a token the run has not seen (tokens are handed out in increasing order)
FreshToken(visited) == Cardinality(visited) + 1

\* the oldest and the newest token the run has seen
SeenTokens(visited) ==
    IF visited = {} THEN {} ELSE {1, Cardinality(visited)}

PageLens(size) == {0, ShortLen, size}

ScrollResponses(visited, n) ==
    (IF n \in ScrollFailPoints THEN FailResponses("scroll") ELSE {})
    \cup {[OkResponse("scroll") EXCEPT !.len = l, !.nextToken = t] :
             <<l, t>> \in {x \in PageLens(PAGE_SIZE_V1)
                                  \X ({Undefined, EmptyToken, FreshToken(visited)}
                                      \cup SeenTokens(visited)) :
                           ~(x[1] = ShortLen /\ x[2] = FreshToken(visited))}}

\* the totals reported when `served` records have been served so far
ReportedTotals(served) ==
    {t \in {served - ShortLen, served, served + ShortLen, SampleTotal} : t >= 0}

TotalHeaders(served) ==
    {NoHeaders, [mdTotal |-> HAbsent, contentRange |-> HNum(served)]}
    \cup {[mdTotal |-> HNum(t), contentRange |-> HAbsent] : t \in ReportedTotals(served)}

SearchResponses(served) ==
    FailResponses("search")
    \cup UNION {{[OkResponse("search") EXCEPT !.len = l, !.headers = h] :
                    h \in TotalHeaders(served + l)} : l \in PageLens(PAGE_SIZE_V1)}

PagedResponses ==
    FailResponses("paged")
    \cup {[OkResponse("paged") EXCEPT !.len = l] : l \in PageLens(PAGE_SIZE_V2)}

\* the name of a listed schema: "" stands for an entry without a name as well
SchemaNames == {NoSchema, S1, S2}

SchemaLists == UNION {[1..n -> SchemaNames] : n \in 0..MaxSchemas}

SchemasResponses ==
    FailResponses("schemas")
    \cup {[OkResponse("schemas") EXCEPT !.names = l] : l \in SchemaLists}

(***************************************************************************)
(* The loops' conditions.                                                  *)
(***************************************************************************)
UnderCapOffByOne(n) == n <= MAX_BATCHES

\* the cap is applied to pairs of batches
UnderCapDouble(n) == n < 2 * MAX_BATCHES

\* while (batches < MAX_BATCHES)
UnderCap(n) == n < MAX_BATCHES

\* !nextToken
Falsy(tok) == tok = Undefined \/ tok = EmptyToken

ScrollStopsNoCycleCheck(len, nextToken, visited) == len = 0 \/ Falsy(nextToken)

\* !chunk.length || !nextToken || visitedTokens.has(nextToken)
ScrollStops(len, nextToken, visited) ==
    len = 0 \/ Falsy(nextToken) \/ nextToken \in visited

ScrollTruncatedOnToken(nextToken, visited) == ~Falsy(nextToken)

ScrollTruncatedOnStop(nextToken, visited) == TRUE

\* visitedTokens.has(nextToken ?? "")
ScrollTruncated(nextToken, visited) ==
    (IF nextToken = Undefined THEN EmptyToken ELSE nextToken) \in visited

\* chunk.length < PAGE_SIZE
ShortPage(len, size) == len < size

ReachedTotalStrict(total, length) == total.known /\ length > total.n

\* total !== null && allRecords.length >= total
ReachedTotal(total, length) == total.known /\ length >= total.n

FirstEntry(names) == IF names = << >> THEN NoSchema ELSE Head(names)

\* schemas.find((item) => item.name)?.name ?? null
RECURSIVE FirstNamed(_)
FirstNamed(names) ==
    IF names = << >> THEN NoSchema
    ELSE IF Head(names) # NoSchema THEN Head(names)
    ELSE FirstNamed(Tail(names))

ResolvedSchemaOrDefault(resp) ==
    IF resp.ok /\ FirstNamed(resp.names) # NoSchema THEN FirstNamed(resp.names) ELSE S1

\* resolveV2Schema on the response of its listing call (null is NoSchema)
ResolvedSchema(resp) == IF resp.ok THEN FirstNamed(resp.names) ELSE NoSchema

\* the token is sent on without being recorded
VisitNothing(visited, tok) == visited

\* visitedTokens.add(nextToken)
Visit(visited, tok) == visited \cup {tok}

CountBatchNever(n) == n

\* batches += 1
CountBatch(n) == n + 1

(***************************************************************************)
(* The export handler, POST, and the strategies it awaits.                 *)
(***************************************************************************)
\* fetch(...)
Issue(req) ==
    /\ inflight' = req
    /\ calls' = [calls EXCEPT ![req.endpoint] = @ + 1]

\* return NextResponse.json(...)
Respond(result) ==
    /\ pc' = "done"
    /\ reply' = result
    /\ inflight' = NoRequest
    /\ UNCHANGED calls

PostResultNoFallback(scroll, fallback) == scroll

PostResultFallbackOnEmpty(scroll, fallback) ==
    IF IsError(scroll) \/ scroll.records = << >> THEN fallback ELSE scroll

PostResultKeepsScrollError(scroll, fallback) ==
    IF IsError(scroll) /\ ~IsError(fallback) THEN fallback ELSE scroll

\* POST: result = "error" in scrollResult ? fallbackResult : scrollResult
PostResult(scroll, fallback) == IF IsError(scroll) THEN fallback ELSE scroll

\* exportV1Scroll returns `result` to POST, which replies with it
ScrollReturn(result) ==
    /\ scrollResult' = result
    /\ Respond(PostResult(result, NoResult))

\* a failed window is requested once more before the fallback gives up
SearchReturnRetry(result) ==
    /\ UNCHANGED scrollResult
    /\ IF IsError(result) /\ calls.search < 2
       THEN /\ Issue(inflight)
            /\ pc' = "search"
            /\ UNCHANGED reply
       ELSE Respond(PostResult(scrollResult, result))

\* exportV1SearchFallback returns `result` to POST, which replies with it
SearchReturn(result) ==
    /\ UNCHANGED scrollResult
    /\ Respond(PostResult(scrollResult, result))

\* exportV2Search returns `result` to POST, which replies with it
PagedReturn(result) ==
    /\ UNCHANGED scrollResult
    /\ Respond(result)

\* exportV1Scroll from the top of its loop
ScrollLoop(tok, visited, n, all, sch) ==
    /\ token' = tok
    /\ visitedTokens' = visited
    /\ allRecords' = all
    /\ UNCHANGED <<page, schemaToUse>>
    /\ IF UnderCap(n)
       THEN /\ batches' = CountBatch(n)
            /\ Issue(ScrollRequest(tok, sch))
            /\ pc' = "scroll"
            /\ UNCHANGED <<reply, scrollResult>>
       ELSE /\ batches' = n
            /\ ScrollReturn(Success(all, n, TRUE, "v1-scroll"))

\* exportV1SearchFallback from the top of its loop
SearchLoop(pg, n, all, sch) ==
    /\ page' = pg
    /\ allRecords' = all
    /\ UNCHANGED schemaToUse
    /\ IF UnderCap(n)
       THEN /\ batches' = CountBatch(n)
            /\ Issue(SearchRequest(pg, sch))
            /\ pc' = "search"
            /\ UNCHANGED reply
       ELSE /\ batches' = n
            /\ Respond(PostResult(scrollResult',
                                  Success(all, n, TRUE, "v1-search-fallback")))

\* exportV2Search from the top of its loop
PagedLoop(pg, n, all, sch) ==
    /\ page' = pg
    /\ allRecords' = all
    /\ schemaToUse' = sch
    /\ UNCHANGED <<token, visitedTokens, visitedBefore, scrollResult>>
    /\ IF UnderCap(n)
       THEN /\ batches' = CountBatch(n)
            /\ Issue(PagedRequest(pg, sch))
            /\ pc' = "paged"
            /\ UNCHANGED reply
       ELSE /\ batches' = n
            /\ Respond(Success(all, n, TRUE, "v2-search"))

\* the request headers the client sends: behind one proxy or behind two
ClientHeaders ==
    {[forwardedFor |-> <<"10.0.0.1", "10.9.9.9">>, realIp |-> "10.0.0.2"],
     [forwardedFor |-> << >>, realIp |-> "10.0.0.1"]}

\* the handler goes on whatever the check said
AllowedAnyway(rateLimit) == TRUE

\* if (!rateLimit.allowed) return the 429 reply
Allowed(rateLimit) == rateLimit.allowed

\* POST up to `await request.json()`
PostExport(headers) ==
    /\ UNCHANGED <<signal, listingVars, other>>
    /\ pc = "idle"
    /\ UNCHANGED docVars
    /\ RateLimited(RateLimitKey("export", ExtractClientIp(headers)),
                   EXPORT_MAX_REQUESTS, EXPORT_WINDOW_MS)
    /\ IF Allowed(lastCheck')
       THEN pc' = "body" /\ reply' = reply
       ELSE pc' = "done" /\ reply' = Failure("Muitas exportacoes em pouco tempo.", 429)
    /\ UNCHANGED <<body, version, schema, scrollResult, token, visitedTokens,
                   visitedBefore, batches, page, allRecords, schemaToUse, inflight,
                   response, calls>>

\* a string of n letters
Text(n) == [i \in 1..n |-> 97]

GoodBody ==
    [accountName |-> Text(3), appKey |-> Text(4), appToken |-> Text(5),
     version |-> "v1", entity |-> <<67, 76>>, schema |-> NoSchema]

\* the request bodies a client sends; an absent version is "absent"
Bodies ==
    {[GoodBody EXCEPT !.version = v, !.schema = sch] :
        v \in {"v1", "v2"}, sch \in {NoSchema, S1}}
    \cup {[GoodBody EXCEPT !.version = "absent"],
          [GoodBody EXCEPT !.version = "v3"],
          [GoodBody EXCEPT !.accountName = << >>],
          [GoodBody EXCEPT !.accountName = <<45, 97, 98>>],
          [GoodBody EXCEPT !.appKey = Text(257)],
          [GoodBody EXCEPT !.appToken = Text(513)],
          [GoodBody EXCEPT !.appToken = <<97, 7, 98>>],
          [GoodBody EXCEPT !.appToken = <<0, 97, 98>>],
          [GoodBody EXCEPT !.appToken = <<97, 98, 127>>],
          [GoodBody EXCEPT !.appKey = <<97, 31, 98>>],
          [GoodBody EXCEPT !.appToken = <<97, 98, 10>>, !.version = "v2", !.schema = S1],
          [GoodBody EXCEPT !.appKey = <<9, 97, 98>>, !.version = "v2", !.schema = S1],
          [GoodBody EXCEPT !.appToken = Text(512) \o <<32>>, !.version = "v2",
                           !.schema = S1],
          [GoodBody EXCEPT !.entity = << >>],
          [GoodBody EXCEPT !.entity = <<67, 47, 76>>],
          [GoodBody EXCEPT !.schema = <<115, 32, 49>>]}

\* POST from the parsed body to the first remote call
PostBody(parsed) ==
    LET accountName == normalizeValue(parsed.accountName)
        appKey      == normalizeValue(parsed.appKey)
        appToken    == normalizeValue(parsed.appToken)
        ver         == IF parsed.version = "absent" THEN "v1" ELSE parsed.version
        entity      == normalizeValue(parsed.entity)
        sch         == normalizeValue(parsed.schema)
        credentialsError == validateCredentials(accountName, appKey, appToken)
        entityError == validateEntityIdentifier(entity, "Entidade")
        schemaError == IF sch # NoSchema
                       THEN validateEntityIdentifier(sch, "Schema")
                       ELSE NoError
        invalid     == IF credentialsError # NoError THEN credentialsError
                       ELSE IF ver # "v1" /\ ver # "v2" THEN "Versao invalida."
                       ELSE IF entityError # NoError THEN entityError
                       ELSE schemaError
    IN /\ UNCHANGED <<signal, listingVars, other>>
       /\ pc = "body"
       /\ body' = parsed
       /\ UNCHANGED docVars
       /\ UNCHANGED <<rlVars, response>>
       /\ IF invalid # NoError
          THEN /\ Respond(Failure(invalid, 400))
               /\ UNCHANGED <<version, schema, scrollResult, token, visitedTokens,
                              visitedBefore, batches, page, allRecords, schemaToUse>>
          ELSE /\ version' = ver
               /\ schema' = sch
               /\ IF ver = "v1"
                  THEN /\ ScrollLoop(Undefined, {}, 0, << >>, sch)
                       /\ UNCHANGED visitedBefore
                  ELSE IF sch # NoSchema
                       THEN PagedLoop(1, 0, << >>, sch)
                       ELSE /\ Issue(SchemasRequest)
                            /\ pc' = "schemas"
                            /\ UNCHANGED <<scrollResult, token, visitedTokens,
                                           visitedBefore, batches, page, allRecords,
                                           schemaToUse, reply>>

\* exportV1Scroll from a response of the scroll call to the next call or the
\* return, and POST's choice between the scroll's result and the fallback
ScrollResponse(resp) ==
    /\ UNCHANGED <<signal, listingVars, other>>
    /\ pc = "scroll"
    /\ response' = resp
    /\ UNCHANGED docVars
    /\ visitedBefore' = visitedTokens
    /\ UNCHANGED <<rlVars, body, version, schema>>
    /\ IF ~resp.ok
       THEN /\ scrollResult' = Failure("Falha ao exportar registros do V1 via scroll.",
                                       resp.status)
            /\ UNCHANGED <<token, visitedTokens>>
            /\ SearchLoop(1, 0, << >>, schema)
       ELSE LET all == Push(allRecords, "scroll", Length(allRecords), resp.len)
            IN IF ScrollStops(resp.len, resp.nextToken, visitedTokens)
               THEN /\ ScrollReturn(Success(all, batches,
                                            ScrollTruncated(resp.nextToken, visitedTokens),
                                            "v1-scroll"))
                    /\ allRecords' = all
                    /\ UNCHANGED <<token, visitedTokens, batches, page, schemaToUse>>
               ELSE ScrollLoop(resp.nextToken, Visit(visitedTokens, resp.nextToken),
                               batches, all, schema)

\* exportV1SearchFallback from a response of the search call to the next call
\* or the return
SearchResponse(resp) ==
    /\ UNCHANGED <<signal, listingVars, other>>
    /\ pc = "search"
    /\ response' = resp
    /\ UNCHANGED docVars
    /\ UNCHANGED <<rlVars, body, version, schema, token, visitedTokens, visitedBefore>>
    /\ IF ~resp.ok
       THEN /\ SearchReturn(Failure("Falha ao exportar registros do V1 no fallback.",
                                    resp.status))
            /\ UNCHANGED <<batches, page, allRecords, schemaToUse>>
       ELSE LET all   == Push(allRecords, "search", inflight.from, resp.len)
                total == parseTotalFromHeaders(resp.headers)
            IN IF \/ ShortPage(resp.len, PAGE_SIZE_V1)
                  \/ ReachedTotal(total, Length(all))
               THEN /\ SearchReturn(Success(all, batches, FALSE, "v1-search-fallback"))
                    /\ allRecords' = all
                    /\ UNCHANGED <<batches, page, schemaToUse>>
               ELSE /\ UNCHANGED scrollResult
                    /\ SearchLoop(page + 1, batches, all, schema)

\* exportV2Search from the response of resolveV2Schema's listing call to the
\* first search call or the return
SchemasResponse(resp) ==
    LET first == ResolvedSchema(resp)
    IN /\ UNCHANGED <<signal, listingVars, other>>
       /\ pc = "schemas"
       /\ response' = resp
       /\ UNCHANGED docVars
       /\ UNCHANGED <<rlVars, body, version, schema>>
       /\ IF first = NoSchema
          THEN /\ PagedReturn(Failure("Nenhum schema disponivel para esta entidade no V2.",
                                      400))
               /\ UNCHANGED <<token, visitedTokens, visitedBefore, batches, page,
                              allRecords, schemaToUse>>
          ELSE PagedLoop(1, 0, << >>, first)

\* exportV2Search from a response of the search call to the next call or the
\* return
PagedResponse(resp) ==
    /\ UNCHANGED <<signal, listingVars, other>>
    /\ pc = "paged"
    /\ response' = resp
    /\ UNCHANGED docVars
    /\ UNCHANGED <<rlVars, body, version, schema>>
    /\ IF ~resp.ok
       THEN /\ PagedReturn(Failure("Falha ao exportar registros do V2.", resp.status))
            /\ UNCHANGED <<token, visitedTokens, visitedBefore, batches, page,
                           allRecords, schemaToUse>>
       ELSE LET all == Push(allRecords, "paged",
                            (inflight.page - 1) * inflight.size, resp.len)
            IN IF ShortPage(resp.len, PAGE_SIZE_V2)
               THEN /\ PagedReturn(Success(all, batches, FALSE, "v2-search"))
                    /\ allRecords' = all
                    /\ UNCHANGED <<token, visitedTokens, visitedBefore, batches, page,
                                   schemaToUse>>
               ELSE PagedLoop(page + 1, batches, all, schemaToUse)

\* catch: request.json(), fetch or response.json() throws
\* a thrown scroll call is taken for a failed one
OnThrowFallback(at) == IF at = "scroll" THEN "search" ELSE "caught"

\* where a failure thrown at `at` is handled: in the catch of POST, which
\* encloses the whole handler
OnThrow(at) == "caught"

Throws ==
    /\ UNCHANGED <<signal, listingVars, other>>
    /\ pc \in {"body", "scroll", "search", "schemas", "paged"}
    /\ pc' = OnThrow(pc)
    /\ UNCHANGED docVars
    /\ reply' = Failure("Erro ao exportar registros.", 500)
    /\ inflight' = NoRequest
    /\ UNCHANGED calls
    /\ UNCHANGED <<rlVars, body, version, schema, scrollResult, token, visitedTokens,
                   visitedBefore, batches, page, allRecords, schemaToUse, response>>

(***************************************************************************)
(* Spec: one export request.  The request finds the rate-limit table empty *)
(* or its client's window used up.                                         *)
(***************************************************************************)
UsedUp(key) ==
    [k \in {key} |-> [count |-> EXPORT_MAX_REQUESTS, resetAt |-> EXPORT_WINDOW_MS]]

Init ==
    /\ now = 0
    /\ lastCheck = [key |-> NoKey, at |-> 0, maxRequests |-> EXPORT_MAX_REQUESTS,
                    windowMs |-> EXPORT_WINDOW_MS, allowed |-> TRUE,
                    retryAfterMs |-> 0, inWindow |-> FALSE, admittedBefore |-> 0]
    /\ \/ /\ rateLimitStore = << >>
          /\ admitted = [k \in TrackedKeys |-> 0]
          /\ windowEnd = [k \in TrackedKeys |-> 0]
          /\ recent = NoneRecent
       \/ LET key == RateLimitKey("export", "10.0.0.1")
          IN /\ rateLimitStore = UsedUp(key)
             /\ recent = [NoneRecent EXCEPT ![key][0] = EXPORT_MAX_REQUESTS]
             /\ admitted = [k \in TrackedKeys |-> IF k = key THEN EXPORT_MAX_REQUESTS ELSE 0]
             /\ windowEnd = [k \in TrackedKeys |-> IF k = key THEN EXPORT_WINDOW_MS ELSE 0]
    /\ ExportIdle

Next ==
    \/ \E headers \in ClientHeaders : PostExport(headers)
    \/ \E parsed \in Bodies : PostBody(parsed)
    \/ \E resp \in ScrollResponses(visitedTokens, batches) : ScrollResponse(resp)
    \/ \E resp \in SearchResponses(Length(allRecords)) : SearchResponse(resp)
    \/ \E resp \in SchemasResponses : SchemasResponse(resp)
    \/ \E resp \in PagedResponses : PagedResponse(resp)
    \/ Throws

Spec == Init /\ [][Next]_vars

(***************************************************************************)
(* The page query: src/app/api/vtex/documents/route.ts.  Its handler uses  *)
(* pc, body, version, schema, page, schemaToUse, inflight, response, reply *)
(* and calls for its own locals of these names.                            *)
(***************************************************************************)
DOCUMENTS_MAX_REQUESTS == 120
DOCUMENTS_WINDOW_MS == 60000
DEFAULT_PAGE == 1
DEFAULT_PAGE_SIZE == 50
MAX_PAGE == 10000
MAX_PAGE_SIZE == 200

SampleDocTotal == 95  \* a total the remote may report to a page query

\* a JSON value read as a number: absent, an integer, or anything else
\* (Number(value) is not an integer)
JAbsent == [kind |-> "absent", n |-> 0]
JInt(n) == [kind |-> "int", n |-> n]
JOther == [kind |-> "other", n |-> 0]

sanitizePaginationUnchecked(pg, size) ==
    [error |-> NoError,
     page |-> IF pg.kind = "int" THEN pg.n ELSE DEFAULT_PAGE,
     pageSize |-> IF size.kind = "int" THEN size.n ELSE DEFAULT_PAGE_SIZE]

sanitizePagination(pg, size) ==
    LET parsedPage     == IF pg.kind = "absent" THEN JInt(DEFAULT_PAGE) ELSE pg
        parsedPageSize == IF size.kind = "absent" THEN JInt(DEFAULT_PAGE_SIZE) ELSE size
    IN IF parsedPage.kind # "int" \/ parsedPage.n < 1 \/ parsedPage.n > MAX_PAGE
       THEN [error |-> "Pagina invalida.", page |-> 0, pageSize |-> 0]
       ELSE IF \/ parsedPageSize.kind # "int"
               \/ parsedPageSize.n < 1
               \/ parsedPageSize.n > MAX_PAGE_SIZE
            THEN [error |-> "Tamanho de pagina invalido.", page |-> 0, pageSize |-> 0]
            ELSE [error |-> NoError, page |-> parsedPage.n, pageSize |-> parsedPageSize.n]

\* GET /search?_fields=_all&_sort=id ASC[&_schema=] with REST-Range
DocSearchRequest(pg, size, sch) ==
    LET from == (pg - 1) * size
        to   == from + size - 1
    IN [NoRequest EXCEPT !.endpoint = "search", !.from = from, !.to = to,
                         !.schema = sch]

\* what fetchRecordsBySchema returns for the response to its request
FetchResult(resp, req) ==
    IF ~resp.ok
    THEN [NoQuery EXCEPT !.status = resp.status, !.from = req.from,
                         !.schemaUsed = req.schema]
    ELSE [NoQuery EXCEPT !.ok = TRUE, !.status = resp.status, !.len = resp.len,
                         !.from = req.from,
                         !.total = parseTotalFromHeaders(resp.headers),
                         !.schemaUsed = req.schema]

\* what fetchSchemas returns for the response to its listing call
FetchedSchemas(resp) ==
    IF ~resp.ok THEN << >> ELSE SelectSeq(resp.names, LAMBDA n : n # NoSchema)

NoPagination ==
    [page |-> 0, pageSize |-> 0, total |-> NoTotal, totalPages |-> NoTotal,
     hasPrevious |-> FALSE, hasNext |-> FALSE]

\* Math.floor in place of Math.ceil, and no Math.max
ComputedTotalPagesFloor(total, size) ==
    IF ~total.known THEN NoTotal
    ELSE Total(total.n \div size)

\* Math.max(1, Math.ceil(total / pageSize))
ComputedTotalPages(total, size) ==
    IF ~total.known THEN NoTotal
    ELSE Total(Max(1, (total.n + size - 1) \div size))

\* hasNext from the size of the batch even when the total is known
PaginationByBatch(pg, size, qr) ==
    [page |-> pg, pageSize |-> size, total |-> qr.total,
     totalPages |-> ComputedTotalPages(qr.total, size),
     hasPrevious |-> pg > 1,
     hasNext |-> qr.len = size]

Pagination(pg, size, qr) ==
    LET computedTotalPages == ComputedTotalPages(qr.total, size)
    IN [page |-> pg, pageSize |-> size, total |-> qr.total,
        totalPages |-> computedTotalPages,
        hasPrevious |-> pg > 1,
        hasNext |-> IF computedTotalPages.known
                    THEN pg < computedTotalPages.n
                    ELSE qr.len = size]

\* the replies of the page query: { error } or { records, pagination,
\* schemaUsed }; the records are those from offset `from` on, `len` of them
DocError(error, status) ==
    [status |-> status, error |-> error, len |-> 0, from |-> 0,
     schemaUsed |-> NoSchema, pagination |-> NoPagination]

DocPage(pg, size, qr) ==
    [status |-> 200, error |-> "", len |-> qr.len, from |-> qr.from,
     schemaUsed |-> qr.schemaUsed, pagination |-> Pagination(pg, size, qr)]

\* the handler after its last remote call
DocResult(pg, size, qr) ==
    IF ~qr.ok
    THEN DocError("Falha ao carregar registros da entidade.", qr.status)
    ELSE DocPage(pg, size, qr)

\* the locals of the export strategies, which the page query has not
strategyVars == <<scrollResult, token, visitedTokens, visitedBefore, batches,
                  allRecords>>

\* return NextResponse.json(...)
DocRespond(result) ==
    /\ pc' = "done"
    /\ reply' = result
    /\ inflight' = NoRequest
    /\ UNCHANGED calls

\* POST up to `await request.json()`
PostDocuments(headers) ==
    /\ UNCHANGED <<signal, listingVars, other>>
    /\ pc = "idle"
    /\ RateLimited(RateLimitKey("documents", ExtractClientIp(headers)),
                   DOCUMENTS_MAX_REQUESTS, DOCUMENTS_WINDOW_MS)
    /\ IF Allowed(lastCheck')
       THEN pc' = "docBody" /\ reply' = reply
       ELSE /\ pc' = "done"
            /\ reply' = DocError("Muitas requisicoes. Tente novamente em instantes.",
                                 429)
    /\ UNCHANGED <<body, version, schema, page, schemaToUse, inflight, response, calls>>
    /\ UNCHANGED docVars
    /\ UNCHANGED strategyVars

\* POST from the parsed body to the first fetchRecordsBySchema
DocumentsBody(parsed) ==
    LET ver         == IF parsed.version = "absent" THEN "v1" ELSE parsed.version
        accountName == normalizeValue(parsed.accountName)
        appKey      == normalizeValue(parsed.appKey)
        appToken    == normalizeValue(parsed.appToken)
        entity      == normalizeValue(parsed.entity)
        sch         == normalizeValue(parsed.schema)
        credentialsError == validateCredentials(accountName, appKey, appToken)
        entityError == validateEntityIdentifier(entity, "Entidade")
        schemaError == IF sch # NoSchema
                       THEN validateEntityIdentifier(sch, "Schema")
                       ELSE NoError
        paginationInput == sanitizePagination(parsed.page, parsed.pageSize)
        invalid     == IF ver # "v1" /\ ver # "v2" THEN "Versao invalida."
                       ELSE IF credentialsError # NoError THEN credentialsError
                       ELSE IF entityError # NoError THEN entityError
                       ELSE IF schemaError # NoError THEN schemaError
                       ELSE paginationInput.error
    IN /\ UNCHANGED <<signal, listingVars, other>>
       /\ pc = "docBody"
       /\ body' = parsed
       /\ UNCHANGED <<rlVars, response, schemaToUse, queryResult, schemas, probe>>
       /\ UNCHANGED strategyVars
       /\ IF invalid # NoError
          THEN /\ DocRespond(DocError(invalid, 400))
               /\ UNCHANGED <<version, schema, page, pageSize>>
          ELSE /\ version' = ver
               /\ schema' = sch
               /\ page' = paginationInput.page
               /\ pageSize' = paginationInput.pageSize
               /\ Issue(DocSearchRequest(paginationInput.page,
                                         paginationInput.pageSize, NoSchema))
               /\ pc' = "docFirst"
               /\ UNCHANGED reply

\* POST, version v2: fetchRecordsBySchema with schemaToUse
SchemaPage(sch) ==
    /\ schemaToUse' = sch
    /\ Issue(DocSearchRequest(page, pageSize, sch))
    /\ pc' = "docSecond"
    /\ UNCHANGED reply

\* POST, version v1: the for loop over schemas from its i-th entry
ProbeLoop(list, i, qr) ==
    /\ schemas' = list
    /\ probe' = i
    /\ queryResult' = qr
    /\ IF i <= Len(list)
       THEN /\ Issue(DocSearchRequest(page, pageSize, list[i]))
            /\ pc' = "docProbe"
            /\ UNCHANGED reply
       ELSE DocRespond(DocResult(page, pageSize, qr))

\* POST from the response of the first fetchRecordsBySchema
FirstPageResponse(resp) ==
    LET qr == FetchResult(resp, inflight)
    IN /\ UNCHANGED <<signal, listingVars, other>>
       /\ pc = "docFirst"
       /\ response' = resp
       /\ queryResult' = qr
       /\ UNCHANGED <<rlVars, body, version, schema, page, pageSize, schemas, probe>>
       /\ UNCHANGED strategyVars
       /\ IF version = "v2"
          THEN IF schema # NoSchema
               THEN SchemaPage(schema)
               ELSE /\ Issue(SchemasRequest)
                    /\ pc' = "docSchemas"
                    /\ UNCHANGED <<reply, schemaToUse>>
          ELSE IF qr.ok /\ qr.len = 0
               THEN /\ Issue(SchemasRequest)
                    /\ pc' = "docProbeList"
                    /\ UNCHANGED <<reply, schemaToUse>>
               ELSE /\ DocRespond(DocResult(page, pageSize, qr))
                    /\ UNCHANGED schemaToUse

\* POST, version v2, from the response of fetchSchemas
DocSchemasResponse(resp) ==
    LET list == FetchedSchemas(resp)
    IN /\ UNCHANGED <<signal, listingVars, other>>
       /\ pc = "docSchemas"
       /\ response' = resp
       /\ schemas' = list
       /\ UNCHANGED <<rlVars, body, version, schema, page, pageSize, queryResult,
                      probe>>
       /\ UNCHANGED strategyVars
       /\ IF list = << >>
          THEN /\ DocRespond(DocError("Nenhum schema disponivel para esta entidade no V2.",
                                      400))
               /\ UNCHANGED schemaToUse
          ELSE SchemaPage(list[1])

\* POST, version v2, from the response of the second fetchRecordsBySchema
SchemaPageResponse(resp) ==
    LET qr == FetchResult(resp, inflight)
    IN /\ UNCHANGED <<signal, listingVars, other>>
       /\ pc = "docSecond"
       /\ response' = resp
       /\ queryResult' = qr
       /\ DocRespond(DocResult(page, pageSize, qr))
       /\ UNCHANGED <<rlVars, body, version, schema, page, pageSize, schemaToUse,
                      schemas, probe>>
       /\ UNCHANGED strategyVars

\* POST, version v1, from the response of fetchSchemas
ProbeListResponse(resp) ==
    /\ UNCHANGED <<signal, listingVars, other>>
    /\ pc = "docProbeList"
    /\ response' = resp
    /\ ProbeLoop(FetchedSchemas(resp), 1, queryResult)
    /\ UNCHANGED <<rlVars, body, version, schema, page, pageSize, schemaToUse>>
    /\ UNCHANGED strategyVars

\* a probe is accepted as soon as it succeeds, even with no records
ProbeAcceptedAnyOk(fallbackResult) == fallbackResult.ok

\* if (fallbackResult.ok && fallbackResult.records.length > 0)
ProbeAccepted(fallbackResult) == fallbackResult.ok /\ fallbackResult.len > 0

\* POST, version v1, from the response of a probe
ProbeResponse(resp) ==
    LET fallbackResult == FetchResult(resp, inflight)
    IN /\ UNCHANGED <<signal, listingVars, other>>
       /\ pc = "docProbe"
       /\ response' = resp
       /\ UNCHANGED <<rlVars, body, version, schema, page, pageSize, schemaToUse>>
       /\ UNCHANGED strategyVars
       /\ IF ProbeAccepted(fallbackResult)
          THEN /\ queryResult' = fallbackResult
               /\ DocRespond(DocResult(page, pageSize, fallbackResult))
               /\ UNCHANGED <<schemas, probe>>
          ELSE ProbeLoop(schemas, probe + 1, queryResult)

\* catch: request.json(), fetch or response.json() throws
DocumentsThrows ==
    /\ UNCHANGED <<signal, listingVars, other>>
    /\ pc \in {"docBody", "docFirst", "docSchemas", "docSecond", "docProbeList",
               "docProbe"}
    /\ pc' = OnThrow(pc)
    /\ reply' = DocError("Erro ao consultar registros do MasterData.", 500)
    /\ inflight' = NoRequest
    /\ UNCHANGED <<rlVars, body, version, schema, page, schemaToUse, response, calls>>
    /\ UNCHANGED docVars
    /\ UNCHANGED strategyVars

(***************************************************************************)
(* SpecDocs: one page query.  The request finds the rate-limit table empty *)
(* or its client's window used up.                                         *)
(***************************************************************************)
\* a request body of the page query: a body of the export with page and
\* pageSize
WithPage(b, pg, size) ==
    [accountName |-> b.accountName, appKey |-> b.appKey, appToken |-> b.appToken,
     version |-> b.version, entity |-> b.entity, schema |-> b.schema,
     page |-> pg, pageSize |-> size]

\* the bodies a client sends: every body of the export without page and
\* pageSize, and valid ones with page and pageSize inside, on and outside
\* their bounds
DocBodies ==
    {WithPage(b, JAbsent, JAbsent) : b \in Bodies}
    \cup {WithPage([GoodBody EXCEPT !.version = v, !.schema = sch], JInt(4), JInt(25)) :
             v \in {"v1", "v2"}, sch \in {NoSchema, S1}}
    \cup {WithPage([GoodBody EXCEPT !.version = "v2", !.schema = S1], pg, size) :
             <<pg, size>> \in {<<JInt(1), JInt(1)>>,
                               <<JInt(1), JInt(25)>>,
                               <<JInt(3), JInt(25)>>,
                               <<JInt(MAX_PAGE), JInt(MAX_PAGE_SIZE)>>,
                               <<JInt(0), JAbsent>>,
                               <<JInt(MAX_PAGE + 1), JAbsent>>,
                               <<JOther, JAbsent>>,
                               <<JAbsent, JInt(0)>>,
                               <<JAbsent, JInt(MAX_PAGE_SIZE + 1)>>,
                               <<JAbsent, JOther>>,
                               <<JOther, JOther>>}}

\* what the remote may answer to a search for `size` records
DocPageLens(size) == {l \in {0, 1, size} : l <= size}

DocTotalHeaders ==
    {NoHeaders,
     [mdTotal |-> HNum(0), contentRange |-> HAbsent],
     [mdTotal |-> HNum(SampleDocTotal), contentRange |-> HAbsent],
     [mdTotal |-> HNum(SampleDocTotal + 5), contentRange |-> HAbsent],
     [mdTotal |-> HText, contentRange |-> HNum(SampleDocTotal)]}

DocSearchResponses(size) ==
    FailResponses("search")
    \cup {[OkResponse("search") EXCEPT !.len = l, !.headers = h] :
             l \in DocPageLens(size), h \in DocTotalHeaders}

DocsUsedUp(key) ==
    [k \in {key} |-> [count |-> DOCUMENTS_MAX_REQUESTS, resetAt |-> DOCUMENTS_WINDOW_MS]]

InitDocs ==
    /\ now = 0
    /\ lastCheck = [key |-> NoKey, at |-> 0, maxRequests |-> DOCUMENTS_MAX_REQUESTS,
                    windowMs |-> DOCUMENTS_WINDOW_MS, allowed |-> TRUE,
                    retryAfterMs |-> 0, inWindow |-> FALSE, admittedBefore |-> 0]
    /\ \/ /\ rateLimitStore = << >>
          /\ admitted = [k \in TrackedKeys |-> 0]
          /\ windowEnd = [k \in TrackedKeys |-> 0]
          /\ recent = NoneRecent
       \/ LET key == RateLimitKey("documents", "10.0.0.1")
          IN /\ rateLimitStore = DocsUsedUp(key)
             /\ admitted = [k \in TrackedKeys |->
                               IF k = key THEN DOCUMENTS_MAX_REQUESTS ELSE 0]
             /\ windowEnd = [k \in TrackedKeys |->
                                IF k = key THEN DOCUMENTS_WINDOW_MS ELSE 0]
             /\ recent = [NoneRecent EXCEPT ![key][0] = DOCUMENTS_MAX_REQUESTS]
    /\ ExportIdle

NextDocs ==
    \/ \E headers \in ClientHeaders : PostDocuments(headers)
    \/ \E parsed \in DocBodies : DocumentsBody(parsed)
    \/ \E resp \in DocSearchResponses(pageSize) : FirstPageResponse(resp)
    \/ \E resp \in SchemasResponses : DocSchemasResponse(resp)
    \/ \E resp \in DocSearchResponses(pageSize) : SchemaPageResponse(resp)
    \/ \E resp \in SchemasResponses : ProbeListResponse(resp)
    \/ \E resp \in DocSearchResponses(pageSize) : ProbeResponse(resp)
    \/ DocumentsThrows

SpecDocs == InitDocs /\ [][NextDocs]_vars

(***************************************************************************)
(* SpecEntry: one request to either entry point.                           *)
(***************************************************************************)
InitEntry == Init \/ InitDocs

NextEntry == Next \/ NextDocs

SpecEntry == InitEntry /\ [][NextEntry]_vars

(***************************************************************************)
(* The entity listing: src/app/api/vtex/entities/route.ts.  POST lists the *)
(* entities and, for V2, looks up the schemas of every entity, all lookups *)
(* outstanding at once under Promise.allSettled.  An entity is its acronym; *)
(* a listing response carries the acronyms in `names`.                     *)
(***************************************************************************)
MaxEntities == 3  \* entities the remote lists

Acronyms == <<"AA", "BB", "CC", "DD", "EE">>

\* GET /api/dataentities
EntitiesRequest == [NoRequest EXCEPT !.endpoint = "entities"]

\* the replies of the listing: { error } or { entities, version }
ListingError(error, status) ==
    [status |-> status, error |-> error, entities |-> << >>, version |-> "none"]

ListingReply(rows, ver) ==
    [status |-> 200, error |-> "", entities |-> rows, version |-> ver]

\* a promise of entities.map(async ...): pending, fulfilled with the names
\* it returned, or rejected; `resp` is the response its fetch received
PendingPromise ==
    [status |-> "pending", value |-> << >>, resp |-> NoResponse]

FulfilledPromise(value, resp) == [status |-> "fulfilled", value |-> value, resp |-> resp]

RejectedPromise(resp) == [status |-> "rejected", value |-> << >>, resp |-> resp]

\* what the async callback returns for the response to its lookup
LookupValue(resp) ==
    IF ~resp.ok THEN << >> ELSE SelectSeq(resp.names, LAMBDA n : n # NoSchema)

\* the rows one settled promise contributes
EntityRows(entity, result) ==
    IF result.status # "fulfilled" THEN << >>
    ELSE [j \in 1..Len(result.value) |->
             [acronym |-> entity.acronym, schema |-> result.value[j]]]

RECURSIVE V2Entities(_, _, _)
\* settled.forEach((result, index) => ...) from index i on
V2Entities(ents, results, i) ==
    IF i > Len(ents) THEN << >>
    ELSE EntityRows(ents[i], results[i]) \o V2Entities(ents, results, i + 1)

\* a rejected lookup rejects the whole listing, as under Promise.all
ListingResultAll(ents, results) ==
    IF \E i \in 1..Len(ents) : results[i].status = "rejected"
    THEN ListingError("Erro ao consultar entidades do MasterData.", 500)
    ELSE ListingReply(V2Entities(ents, results, 1), "v2")

\* POST after Promise.allSettled
ListingResult(ents, results) == ListingReply(V2Entities(ents, results, 1), "v2")

\* the locals of the export and of the page query, which the listing has not
handlerVars == <<schema, scrollResult, token, visitedTokens, visitedBefore, batches,
                 page, allRecords, schemaToUse, signal, other>>

\* return NextResponse.json(...)
ListingRespond(result) ==
    /\ pc' = "done"
    /\ reply' = result
    /\ inflight' = NoRequest

\* POST up to `await request.json()`
PostEntities ==
    /\ pc = "idle"
    /\ pc' = "entBody"
    /\ UNCHANGED <<rlVars, body, version, inflight, response, reply, calls>>
    /\ UNCHANGED <<handlerVars, docVars, listingVars>>

\* POST from the parsed body to the listing call
EntitiesBody(parsed) ==
    LET ver == IF parsed.version = "absent" THEN "v1" ELSE parsed.version
    IN /\ pc = "entBody"
       /\ body' = parsed
       /\ UNCHANGED <<rlVars, response, calls>>
       /\ UNCHANGED <<handlerVars, docVars, listingVars>>
       /\ IF parsed.accountName = << >> \/ parsed.appKey = << >>
             \/ parsed.appToken = << >>
          THEN /\ ListingRespond(ListingError("Informe vendor, app key e app token.",
                                              400))
               /\ UNCHANGED version
          ELSE /\ version' = ver
               /\ inflight' = EntitiesRequest
               /\ pc' = "entList"
               /\ UNCHANGED reply

\* POST from the response of the listing call to the reply or to the
\* lookups, which entities.map issues one after the other without awaiting
EntitiesResponse(resp) ==
    LET listed == [i \in 1..Len(resp.names) |->
                      [acronym |-> resp.names[i], schema |-> NoSchema]]
    IN /\ pc = "entList"
       /\ response' = resp
       /\ UNCHANGED <<rlVars, body, version>>
       /\ UNCHANGED <<handlerVars, docVars>>
       /\ IF ~resp.ok
          THEN /\ ListingRespond(ListingError("Falha ao listar entidades no VTEX MasterData.",
                                              resp.status))
               /\ UNCHANGED <<calls, listingVars>>
          ELSE /\ entities' = listed
               /\ IF version = "v1"
                  THEN /\ ListingRespond(ListingReply(listed, "v1"))
                       /\ UNCHANGED <<calls, settled>>
                  ELSE /\ settled' = [i \in 1..Len(listed) |-> PendingPromise]
                       /\ calls' = [calls EXCEPT !.schemas = @ + Len(listed)]
                       /\ inflight' = NoRequest
                       /\ pc' = "entLookups"
                       /\ UNCHANGED reply

\* the callback of entity i from the response of its lookup to its return
LookupResponse(i, resp) ==
    /\ pc = "entLookups"
    /\ i \in 1..Len(settled)
    /\ settled[i] = PendingPromise
    /\ settled' = [settled EXCEPT ![i] = FulfilledPromise(LookupValue(resp), resp)]
    /\ response' = resp
    /\ UNCHANGED <<rlVars, pc, body, version, inflight, reply, calls, entities>>
    /\ UNCHANGED <<handlerVars, docVars>>

\* the callback of entity i throws: its fetch or its response.json() fails
LookupThrows(i) ==
    /\ pc = "entLookups"
    /\ i \in 1..Len(settled)
    /\ settled[i] = PendingPromise
    /\ settled' = [settled EXCEPT ![i] = RejectedPromise(NoResponse)]
    /\ UNCHANGED <<rlVars, pc, body, version, inflight, response, reply, calls,
                   entities>>
    /\ UNCHANGED <<handlerVars, docVars>>

\* POST from the settling of every promise to the reply
ListingSettled ==
    /\ pc = "entLookups"
    /\ \A i \in 1..Len(settled) : settled[i] # PendingPromise
    /\ ListingRespond(ListingResult(entities, settled))
    /\ UNCHANGED <<rlVars, body, version, response, calls>>
    /\ UNCHANGED <<handlerVars, docVars, listingVars>>

\* catch: request.json(), the listing fetch or its response.json() throws
ListingThrows ==
    /\ pc \in {"entBody", "entList"}
    /\ pc' = "caught"
    /\ reply' = ListingError("Erro ao consultar entidades do MasterData.", 500)
    /\ inflight' = NoRequest
    /\ UNCHANGED <<rlVars, body, version, response, calls>>
    /\ UNCHANGED <<handlerVars, docVars, listingVars>>

(***************************************************************************)
(* SpecListing: one listing request.                                       *)
(***************************************************************************)
\* the request bodies a client sends to the listing
ListingBodies ==
    {[GoodBody EXCEPT !.version = v] : v \in {"v1", "v2", "absent", "v3"}}
    \cup {[GoodBody EXCEPT !.version = "v2", !.appKey = << >>]}

\* the listings the remote may answer with
EntitiesResponses ==
    FailResponses("entities")
    \cup {[OkResponse("entities") EXCEPT !.names = SubSeq(Acronyms, 1, n)] :
             n \in 0..MaxEntities}

\* what the remote may answer to a lookup: a failure, or a list with no
\* schema, one, one after an unnamed entry, or two
LookupResponses ==
    FailResponses("schemas")
    \cup {[OkResponse("schemas") EXCEPT !.names = l] :
             l \in {<< >>, <<S1>>, <<NoSchema, S1>>, <<S2, S1>>}}

NextListing ==
    \/ PostEntities
    \/ \E parsed \in ListingBodies : EntitiesBody(parsed)
    \/ \E resp \in EntitiesResponses : EntitiesResponse(resp)
    \/ \E i \in 1..MaxEntities, resp \in LookupResponses : LookupResponse(i, resp)
    \/ \E i \in 1..MaxEntities : LookupThrows(i)
    \/ ListingSettled
    \/ ListingThrows

SpecListing == Init /\ [][NextListing]_vars

(***************************************************************************)
(* SpecCancel: one export request whose caller closes the connection while *)
(* the first remote call is outstanding.  The runtime fires request.signal; *)
(* POST and the strategies never read it and pass no signal to fetch.      *)
(***************************************************************************)
MaxCancelCalls == 1  \* the caller closes the connection during this call

\* the caller closes the connection
Cancel ==
    /\ pc \in {"scroll", "search", "schemas", "paged"}
    /\ ~signal.aborted
    /\ calls.scroll + calls.search + calls.schemas + calls.paged <= MaxCancelCalls
    /\ signal' = [aborted |-> TRUE, seen |-> calls]
    /\ UNCHANGED <<rlVars, exportVars, docVars, listingVars, other>>

NextCancel == Next \/ Cancel

SpecCancel == Init /\ [][NextCancel]_vars

(***************************************************************************)
(* SpecBuckets: a stream of requests to both routes, from a client behind  *)
(* proxies and from clients whose requests carry no forwarded-address      *)
(* header.  Each request ends at `await request.json()` (the body is       *)
(* malformed) or at the 429.  Each bucket starts absent or one request     *)
(* short of its limit, in a window opened at time 0.                       *)
(***************************************************************************)
MaxFresh == 2    \* requests followed in a bucket's new window
MaxWindows == 1  \* windows the clock runs through

\* the request headers of the stream: those of ClientHeaders, or none
BucketHeaders == ClientHeaders \cup {[forwardedFor |-> << >>, realIp |-> ""]}

\* the maxRequests the routes pass for a key
BucketLimit(key) ==
    IF key[1] = "export" THEN EXPORT_MAX_REQUESTS ELSE DOCUMENTS_MAX_REQUESTS

\* the key's bucket is absent, elapsed, in its first requests or near its limit
BucketFollowed(key) ==
    IF key \notin DOMAIN rateLimitStore THEN TRUE
    ELSE IF WindowElapsed(rateLimitStore[key], now) THEN TRUE
    ELSE IF rateLimitStore[key].count < MaxFresh THEN TRUE
    ELSE rateLimitStore[key].count >= BucketLimit(key) - 1

InitBuckets ==
    /\ now = 0
    /\ lastCheck = [key |-> NoKey, at |-> 0, maxRequests |-> EXPORT_MAX_REQUESTS,
                    windowMs |-> EXPORT_WINDOW_MS, allowed |-> TRUE,
                    retryAfterMs |-> 0, inWindow |-> FALSE, admittedBefore |-> 0]
    /\ \E near \in SUBSET TrackedKeys :
          /\ rateLimitStore = [k \in near |-> [count |-> BucketLimit(k) - 1,
                                               resetAt |-> EXPORT_WINDOW_MS]]
          /\ admitted = [k \in TrackedKeys |->
                           IF k \in near THEN BucketLimit(k) - 1 ELSE 0]
          /\ windowEnd = [k \in TrackedKeys |->
                            IF k \in near THEN EXPORT_WINDOW_MS ELSE 0]
          /\ recent = [k \in TrackedKeys |->
                         [age \in 0..MaxW |->
                             IF k \in near /\ age = 0 THEN BucketLimit(k) - 1 ELSE 0]]
    /\ ExportIdle

\* a request to the export route arrives
ExportRequest(headers) ==
    /\ BucketFollowed(RateLimitKey("export", ExtractClientIp(headers)))
    /\ PostExport(headers)

\* a request to the page query route arrives
DocumentsRequest(headers) ==
    /\ BucketFollowed(RateLimitKey("documents", ExtractClientIp(headers)))
    /\ PostDocuments(headers)

\* the handler has returned; the next request finds the module's table as
\* the last one left it
NextRequest ==
    /\ pc \in {"done", "caught"}
    /\ signal' = NoSignal
    /\ UNCHANGED <<listingVars, other>>
    /\ pc' = "idle"
    /\ reply' = NoResult
    /\ UNCHANGED <<rlVars, body, version, schema, scrollResult, token, visitedTokens,
                   visitedBefore, batches, page, allRecords, schemaToUse, inflight,
                   response, calls>>
    /\ UNCHANGED docVars

\* a whole window passes between two requests
Elapse ==
    /\ UNCHANGED <<signal, listingVars, other>>
    /\ pc = "idle"
    /\ now + EXPORT_WINDOW_MS <= MaxWindows * EXPORT_WINDOW_MS
    /\ now' = now + EXPORT_WINDOW_MS
    /\ recent' = NoneRecent
    /\ UNCHANGED <<rateLimitStore, lastCheck, admitted, windowEnd>>
    /\ UNCHANGED exportVars
    /\ UNCHANGED docVars

NextBuckets ==
    \/ \E headers \in BucketHeaders : ExportRequest(headers)
    \/ \E headers \in BucketHeaders : DocumentsRequest(headers)
    \/ Throws
    \/ DocumentsThrows
    \/ NextRequest
    \/ Elapse

SpecBuckets == InitBuckets /\ [][NextBuckets]_vars

(***************************************************************************)
(* SpecInvalid: one client sends request after request to both routes      *)
(* within one window, and none of them is valid: the body does not parse   *)
(* or fails the validation.                                                *)
(***************************************************************************)
\* the headers of the client
InvalidClient == [forwardedFor |-> << >>, realIp |-> "10.0.0.1"]

\* bodies the export rejects: no account name, an unknown version
InvalidBodies ==
    {[GoodBody EXCEPT !.accountName = << >>], [GoodBody EXCEPT !.version = "v3"]}

\* bodies the page query rejects: an unknown version, a page that is no
\* integer
InvalidDocBodies ==
    {WithPage([GoodBody EXCEPT !.version = "v3"], JAbsent, JAbsent),
     WithPage(GoodBody, JOther, JAbsent)}

InitInvalid ==
    /\ now = 0
    /\ lastCheck = [key |-> NoKey, at |-> 0, maxRequests |-> EXPORT_MAX_REQUESTS,
                    windowMs |-> EXPORT_WINDOW_MS, allowed |-> TRUE,
                    retryAfterMs |-> 0, inWindow |-> FALSE, admittedBefore |-> 0]
    /\ rateLimitStore = << >>
    /\ admitted = [k \in TrackedKeys |-> 0]
    /\ windowEnd = [k \in TrackedKeys |-> 0]
    /\ recent = NoneRecent
    /\ ExportIdle

NextInvalid ==
    \/ PostExport(InvalidClient)
    \/ PostDocuments(InvalidClient)
    \/ \E parsed \in InvalidBodies : PostBody(parsed)
    \/ \E parsed \in InvalidDocBodies : DocumentsBody(parsed)
    \/ Throws
    \/ DocumentsThrows
    \/ NextRequest

SpecInvalid == InitInvalid /\ [][NextInvalid]_vars

(***************************************************************************)
(* SpecTotals: parseTotalFromHeaders on the text of the headers.  The two  *)
(* routes each have a copy: the export's in src/lib/security.ts, the page  *)
(* query's in src/app/api/vtex/documents/route.ts.  headers.get gives null *)
(* for a header the response does not carry and else its value, a string  *)
(* without leading or trailing white space.                                *)
(***************************************************************************)
MaxHeaderLen == 3  \* the characters of a header value

\* headers.get(name): null, or the value
NullHeader == [present |-> FALSE, text |-> << >>]
HeaderValue(text) == [present |-> TRUE, text |-> text]

\* if (value): null and "" are falsy
Truthy(value) == value.present /\ value.text # << >>

IsDigit(c) == c \in 48..57

IsHexDigit(c) == IsDigit(c) \/ c \in 65..70 \/ c \in 97..102

HexDigit(c) == IF IsDigit(c) THEN c - 48 ELSE IF c >= 97 THEN c - 87 ELSE c - 55

RECURSIVE Numeral(_, _)
\* the value of the digits of s in the given base
Numeral(s, base) ==
    IF s = << >> THEN 0
    ELSE Numeral(SubSeq(s, 1, Len(s) - 1), base) * base + HexDigit(s[Len(s)])

NotANumber == [finite |-> FALSE, n |-> 0]
Finite(n) == [finite |-> TRUE, n |-> n]

\* Number(text) and Number.isFinite of it, for the texts made of digits,
\* letters, signs, "/" and white space: white space is trimmed, "" is 0, a
\* decimal integer may carry a sign, a hexadecimal one starts with 0x or 0X,
\* and any other such text is NaN
NumberOf(text) ==
    LET t == normalizeValue(text) IN
    IF t = << >> THEN Finite(0)
    ELSE IF \A i \in 1..Len(t) : IsDigit(t[i]) THEN Finite(Numeral(t, 10))
    ELSE IF /\ Len(t) >= 2
            /\ t[1] \in {43, 45}
            /\ \A i \in 2..Len(t) : IsDigit(t[i])
         THEN Finite((IF t[1] = 45 THEN -1 ELSE 1) * Numeral(Tail(t), 10))
    ELSE IF /\ Len(t) >= 3
            /\ t[1] = 48
            /\ t[2] \in {88, 120}
            /\ \A i \in 3..Len(t) : IsHexDigit(t[i])
         THEN Finite(Numeral(SubSeq(t, 3, Len(t)), 16))
    ELSE NotANumber

\* text.match(/\/(\d+)$/): the positions of a "/" that only digits, and at
\* least one, follow up to the end of the text
RangeMatches(text) ==
    {i \in 1..(Len(text) - 1) :
        /\ text[i] = 47
        /\ \A j \in (i + 1)..Len(text) : IsDigit(text[j])}

\* the content-range header is read first
RangeBeforeDirect(headers) ==
    LET directTotal  == headers.mdTotal
        contentRange == headers.contentRange
        match        == RangeMatches(contentRange.text)
    IN IF Truthy(contentRange) /\ match # {}
       THEN LET i == CHOOSE i \in match : TRUE
            IN Total(Numeral(SubSeq(contentRange.text, i + 1, Len(contentRange.text)), 10))
       ELSE IF Truthy(directTotal) /\ NumberOf(directTotal.text).finite
       THEN Total(NumberOf(directTotal.text).n)
       ELSE NoTotal

\* parseTotalFromHeaders of src/lib/security.ts
ExportTotal(headers) ==
    LET directTotal  == headers.mdTotal
        contentRange == headers.contentRange
        match        == RangeMatches(contentRange.text)
    IN IF Truthy(directTotal) /\ NumberOf(directTotal.text).finite
       THEN Total(NumberOf(directTotal.text).n)
       ELSE IF ~Truthy(contentRange) THEN NoTotal
       ELSE IF match = {} THEN NoTotal
       ELSE LET i == CHOOSE i \in match : TRUE
            IN Total(Numeral(SubSeq(contentRange.text, i + 1, Len(contentRange.text)), 10))

\* parseTotalFromHeaders of src/app/api/vtex/documents/route.ts
DocumentsTotal(headers) ==
    LET directTotal  == headers.mdTotal
        contentRange == headers.contentRange
        match        == RangeMatches(contentRange.text)
    IN IF Truthy(directTotal) /\ NumberOf(directTotal.text).finite
       THEN Total(NumberOf(directTotal.text).n)
       ELSE IF ~Truthy(contentRange) THEN NoTotal
       ELSE IF match = {} THEN NoTotal
       ELSE LET i == CHOOSE i \in match : TRUE
            IN Total(Numeral(SubSeq(contentRange.text, i + 1, Len(contentRange.text)), 10))

\* the texts of at most MaxHeaderLen of the characters
Texts(chars) == UNION {[1..n -> chars] : n \in 0..MaxHeaderLen}

\* x-vtex-md-total: absent, or a text of "0", "7", "x" and "-"
DirectHeaders == {NullHeader} \cup {HeaderValue(t) : t \in Texts({48, 55, 120, 45})}

\* rest-content-range: absent, or a text of "0", "7", "/" and "-"
RangeHeaders == {NullHeader} \cup {HeaderValue(t) : t \in Texts({48, 55, 47, 45})}

\* a response to a search call of the fallback arrives and
\* exportV1SearchFallback reads its total
FallbackTotal(headers) ==
    /\ pc = "idle"
    /\ pc' = "search"
    /\ response' = [OkResponse("search") EXCEPT !.headers = headers]
    /\ queryResult' = [NoQuery EXCEPT !.ok = TRUE, !.status = 200,
                                      !.total = ExportTotal(headers)]
    /\ UNCHANGED <<rlVars, body, version, schema, scrollResult, token, visitedTokens,
                   visitedBefore, batches, page, allRecords, schemaToUse, inflight,
                   reply, calls, pageSize, schemas, probe, signal, listingVars, other>>

\* a response to a search call of the page query arrives and
\* fetchRecordsBySchema reads its total
PageTotal(headers) ==
    /\ pc = "idle"
    /\ pc' = "docFirst"
    /\ response' = [OkResponse("search") EXCEPT !.headers = headers]
    /\ queryResult' = [NoQuery EXCEPT !.ok = TRUE, !.status = 200,
                                      !.total = DocumentsTotal(headers)]
    /\ UNCHANGED <<rlVars, body, version, schema, scrollResult, token, visitedTokens,
                   visitedBefore, batches, page, allRecords, schemaToUse, inflight,
                   reply, calls, pageSize, schemas, probe, signal, listingVars, other>>

NextTotals ==
    /\ pc = "idle"
    /\ \/ \E d \in DirectHeaders, c \in RangeHeaders :
             FallbackTotal([mdTotal |-> d, contentRange |-> c])
       \/ \E d \in DirectHeaders, c \in RangeHeaders :
             PageTotal([mdTotal |-> d, contentRange |-> c])

SpecTotals == InitInvalid /\ [][NextTotals]_vars

(***************************************************************************)
(* SpecReturns: one export request whose awaits all settle: the body is    *)
(* read or fails to parse, and every remote call is answered or throws.    *)
(***************************************************************************)
SpecReturns == Init /\ [][Next]_vars /\ WF_vars(Next)

(***************************************************************************)
(* SpecPair: two export requests of one client, handled concurrently.  The *)
(* runtime runs one handler at a time and may switch to the other whenever *)
(* the running one is suspended at an await; every action above runs from  *)
(* one await to the next.  The variables of the export hold the locals of  *)
(* the running handler and `other` those of the suspended one; the table   *)
(* of the rate limiter belongs to the module and is not switched.  The     *)
(* remote serves each export at most MaxPairBatches full batches.          *)
(***************************************************************************)
MaxPairBatches == 2  \* full batches the remote serves one strategy

\* each handler would keep the table it left when it was suspended
TableOnResumeOwn(shared, left) == left

\* const rateLimitStore = new Map(), at module level: a resumed handler finds
\* the table as the other handler left it
TableOnResume(shared, left) == shared

\* one set of visited tokens at module level, used by both handlers
VisitedOnResumeShared(own, running) == running

\* const visitedTokens = new Set(), inside exportV1Scroll: a resumed handler
\* finds its own set
VisitedOnResume(own, running) == own

\* the locals of the running handler
Locals ==
    [pc |-> pc, body |-> body, version |-> version, schema |-> schema,
     scrollResult |-> scrollResult, token |-> token,
     visitedTokens |-> visitedTokens, visitedBefore |-> visitedBefore,
     batches |-> batches, page |-> page, allRecords |-> allRecords,
     schemaToUse |-> schemaToUse, inflight |-> inflight, response |-> response,
     reply |-> reply, calls |-> calls, table |-> rateLimitStore]

\* the runtime suspends the running handler and resumes the other
Switch ==
    /\ other' = Locals
    /\ pc' = other.pc
    /\ body' = other.body
    /\ version' = other.version
    /\ schema' = other.schema
    /\ scrollResult' = other.scrollResult
    /\ token' = other.token
    /\ visitedTokens' = VisitedOnResume(other.visitedTokens, visitedTokens)
    /\ visitedBefore' = other.visitedBefore
    /\ batches' = other.batches
    /\ page' = other.page
    /\ allRecords' = other.allRecords
    /\ schemaToUse' = other.schemaToUse
    /\ inflight' = other.inflight
    /\ response' = other.response
    /\ reply' = other.reply
    /\ calls' = other.calls
    /\ rateLimitStore' = TableOnResume(rateLimitStore, other.table)
    /\ UNCHANGED <<now, lastCheck, admitted, windowEnd, recent>>
    /\ UNCHANGED <<docVars, listingVars, signal>>

\* the request bodies of the two exports
PairBodies ==
    {GoodBody, [GoodBody EXCEPT !.version = "v2", !.schema = S1],
     [GoodBody EXCEPT !.accountName = << >>]}

\* what the remote answers to the scroll call of a run that has received n
\* batches and the tokens in visited
PairScrollResponses(visited, n) ==
    (IF n = 1 THEN FailResponses("scroll") ELSE {})
    \cup {[OkResponse("scroll") EXCEPT !.len = ShortLen]}
    \cup {[OkResponse("scroll") EXCEPT !.len = PAGE_SIZE_V1, !.nextToken = t] :
             t \in (IF n <= MaxPairBatches THEN {FreshToken(visited)} ELSE {})
                   \cup SeenTokens(visited)}

\* what the remote answers to a call of the fallback or of the V2 search
PairPageResponses(endpoint, n) ==
    FailResponses(endpoint)
    \cup {[OkResponse(endpoint) EXCEPT !.len = l] :
             l \in {ShortLen} \cup (IF n <= MaxPairBatches THEN {PAGE_SIZE_V1} ELSE {})}

InitPair ==
    /\ now = 0
    /\ lastCheck = [key |-> NoKey, at |-> 0, maxRequests |-> EXPORT_MAX_REQUESTS,
                    windowMs |-> EXPORT_WINDOW_MS, allowed |-> TRUE,
                    retryAfterMs |-> 0, inWindow |-> FALSE, admittedBefore |-> 0]
    /\ \E near \in SUBSET {RateLimitKey("export", "10.0.0.1")} :
          /\ rateLimitStore = [k \in near |-> [count |-> EXPORT_MAX_REQUESTS - 1,
                                               resetAt |-> EXPORT_WINDOW_MS]]
          /\ admitted = [k \in TrackedKeys |->
                           IF k \in near THEN EXPORT_MAX_REQUESTS - 1 ELSE 0]
          /\ windowEnd = [k \in TrackedKeys |->
                            IF k \in near THEN EXPORT_WINDOW_MS ELSE 0]
          /\ recent = [k \in TrackedKeys |->
                         [age \in 0..MaxW |->
                             IF k \in near /\ age = 0
                             THEN EXPORT_MAX_REQUESTS - 1 ELSE 0]]
    /\ ExportIdle

NextPair ==
    \/ \E headers \in ClientHeaders : PostExport(headers)
    \/ \E parsed \in PairBodies : PostBody(parsed)
    \/ \E resp \in PairScrollResponses(visitedTokens, batches) : ScrollResponse(resp)
    \/ \E resp \in PairPageResponses("search", batches) : SearchResponse(resp)
    \/ \E resp \in PairPageResponses("paged", batches) : PagedResponse(resp)
    \/ Throws
    \/ Switch

SpecPair == InitPair /\ [][NextPair]_vars

(***************************************************************************)
(* Properties.                                                             *)
(***************************************************************************)
\* the handler returned from its try block (not from catch)
Returned == pc = "done"

\* exportV1Scroll returned after a successful response
ScrollEnded == Returned /\ response.endpoint = "scroll" /\ response.ok

\* exportV1SearchFallback returned after a successful response
FallbackEnded == Returned /\ response.endpoint = "search" /\ response.ok

\* the last response handed out a token the run had not seen
FreshNext == ~Falsy(response.nextToken) /\ response.nextToken \notin visitedBefore

\* the last response handed out a token the run had already seen
RepeatedNext == response.nextToken \in visitedBefore

\* the stop conditions of the strategy the last response belongs to, on that
\* response and the records gathered up to it
StopMet ==
    CASE response.endpoint = "scroll" ->
            response.len = 0 \/ Falsy(response.nextToken) \/ RepeatedNext
      [] response.endpoint = "search" ->
            \/ response.len < PAGE_SIZE_V1
            \/ /\ parseTotalFromHeaders(response.headers).known
               /\ Length(allRecords) >= parseTotalFromHeaders(response.headers).n
      [] response.endpoint = "paged" -> response.len < PAGE_SIZE_V2
      [] OTHER -> FALSE

\* C1: with maxRequests = N >= 1 and windowMs > 0, a check on a key that has
\* had N allowed checks in its current window is denied with retryAfterMs > 0,
\* and a check made at or after the end of the key's window is allowed.
C1_QuotaThenReset ==
    lastCheck.key # NoKey =>
        /\ (lastCheck.inWindow /\ lastCheck.admittedBefore >= lastCheck.maxRequests)
              => (~lastCheck.allowed /\ lastCheck.retryAfterMs > 0)
        /\ (~lastCheck.inWindow => lastCheck.allowed)

\* a check at or after the reset of a window in which the quota was used up
C1_Witness ==
    /\ lastCheck.key # NoKey
    /\ ~lastCheck.inWindow
    /\ lastCheck.admittedBefore = lastCheck.maxRequests
    /\ lastCheck.maxRequests > 1
    /\ lastCheck.allowed

C3_ScrollCap ==
    /\ calls.scroll <= MAX_BATCHES
    /\ (ScrollEnded /\ calls.scroll = MAX_BATCHES /\ response.len > 0 /\ FreshNext) =>
          /\ IsSuccess(reply)
          /\ reply.truncated
          /\ reply.batches = MAX_BATCHES
          /\ inflight = NoRequest

C3_Witness ==
    /\ ScrollEnded
    /\ calls.scroll = MAX_BATCHES
    /\ response.len > 0
    /\ FreshNext
    /\ reply.truncated
    /\ reply.batches = MAX_BATCHES

\* C4: the scroll never sends a token that had been seen when it was handed
\* out, and a response whose next token had been seen ends the run at once:
\* truncated = true, the response's batch appended, no further call.
C4_CycleDetection ==
    /\ (pc = "scroll" /\ batches > 1) =>
          (token = response.nextToken /\ token \notin visitedBefore)
    /\ (response.endpoint = "scroll" /\ response.ok /\ RepeatedNext) =>
          /\ Returned
          /\ IsSuccess(reply)
          /\ reply.truncated
          /\ reply.strategy = "v1-scroll"
          /\ reply.batches = calls.scroll
          /\ Length(reply.records) = (calls.scroll - 1) * PAGE_SIZE_V1 + response.len
          /\ inflight = NoRequest

C4_Witness ==
    /\ ScrollEnded
    /\ RepeatedNext
    /\ response.len > 0
    /\ calls.scroll > 2
    /\ calls.scroll < MAX_BATCHES
    /\ reply.truncated

\* C5: the windowed search goes on only after a full page that has not
\* reached the reported total, and returns only on a response that meets a
\* stop condition (truncated = false) or on the 200th response (truncated =
\* true); SampleTotal (250) records with that total reported take
\* SampleTotal \div 100 + 1 (3) calls and are not truncated.
C5_WindowedStop ==
    /\ (pc = "search" /\ batches > 1) =>
          (response.endpoint = "search" /\ response.ok /\ ~StopMet)
    /\ FallbackEnded =>
          /\ IsSuccess(reply)
          /\ (StopMet => ~reply.truncated)
          /\ (~StopMet => (reply.truncated /\ calls.search = MAX_BATCHES))
    /\ (/\ FallbackEnded
        /\ parseTotalFromHeaders(response.headers) = Total(SampleTotal)
        /\ Length(reply.records) = SampleTotal) =>
          (calls.search = (SampleTotal \div PAGE_SIZE_V1) + 1 /\ ~reply.truncated)

\* 250 records, total 250 reported: three calls (100, 100, 50), not truncated
C5_Witness ==
    /\ FallbackEnded
    /\ calls.search = 3
    /\ response.len = 50
    /\ parseTotalFromHeaders(response.headers) = Total(250)
    /\ reply.records = <<Run("search", 0, 250)>>
    /\ ~reply.truncated

\* the listing call was answered and resolves no schema
ListingUnresolved ==
    /\ response.endpoint = "schemas"
    /\ \/ ~response.ok
       \/ \A i \in 1..Len(response.names) : response.names[i] = NoSchema

\* C6: a V2 export without a schema whose listing call fails, or lists no
\* named schema, replies 400 "no schema available" (not the remote status),
\* after one listing call and no paged search call.
C6_NoSchemaAvailable ==
    ListingUnresolved =>
        /\ Returned
        /\ reply.status = 400
        /\ reply.error = "Nenhum schema disponivel para esta entidade no V2."
        /\ calls.schemas = 1
        /\ calls.paged = 0
        /\ inflight = NoRequest

\* the listing answered 404 or 500 and the export replied 400
C6_Witness ==
    /\ ListingUnresolved
    /\ ~response.ok
    /\ version = "v2"
    /\ schema = NoSchema
    /\ reply.status = 400

\* the remote data calls issued by the strategy that runs or ran last
StrategyCalls ==
    IF calls.search > 0 THEN calls.search
    ELSE IF calls.scroll > 0 THEN calls.scroll
    ELSE calls.paged

\* C7: the batch counter never exceeds 200 and equals the number of data
\* calls the strategy has issued; a returned result has 1 <= batches <= 200.
C7_BatchCounter ==
    /\ batches <= MAX_BATCHES
    /\ batches = StrategyCalls
    /\ (Returned /\ IsSuccess(reply)) =>
          (reply.batches >= 1 /\ reply.batches <= MAX_BATCHES /\ reply.batches = batches)

C7_Witness ==
    /\ Returned
    /\ IsSuccess(reply)
    /\ reply.strategy = "v2-search"
    /\ reply.batches = MAX_BATCHES
    /\ calls.paged = MAX_BATCHES

\* C8: a successful result is truncated exactly when the strategy issued 200
\* batches and the 200th response met no stop condition, or the scroll's last
\* response repeated a token; the windowed and the paged search are never
\* truncated with fewer than 200 batches.
C8_TruncatedIff ==
    (Returned /\ IsSuccess(reply)) =>
        /\ reply.truncated <=>
              \/ (reply.batches = MAX_BATCHES /\ ~StopMet)
              \/ (response.endpoint = "scroll" /\ RepeatedNext)
        /\ (reply.truncated /\ reply.strategy # "v1-scroll") =>
              reply.batches = MAX_BATCHES

\* the windowed search ran into the cap
C8_Witness ==
    /\ Returned
    /\ IsSuccess(reply)
    /\ reply.strategy = "v1-search-fallback"
    /\ reply.truncated
    /\ reply.batches = MAX_BATCHES

\* C9 as stated: a scroll that stops on an empty batch or on a response
\* without a next token reports truncated = false.
C9_EmptyOrNoTokenNotTruncated ==
    (ScrollEnded /\ (response.len = 0 \/ Falsy(response.nextToken))) =>
        ~reply.truncated

\* C9 amended: a scroll that stops on an empty batch or on a response without
\* a next token reports truncated = false unless that response repeats a
\* token of the run; a stop inside the loop is truncated only on a repeated
\* token.
C9_NaturalEnd ==
    /\ (ScrollEnded /\ (response.len = 0 \/ Falsy(response.nextToken)) /\ ~RepeatedNext) =>
          (IsSuccess(reply) /\ ~reply.truncated)
    /\ (ScrollEnded /\ StopMet /\ reply.truncated) => RepeatedNext

\* a response without a next token after tokens were seen
C9_Witness ==
    /\ ScrollEnded
    /\ response.nextToken = Undefined
    /\ response.len > 0
    /\ visitedBefore # {}
    /\ ~reply.truncated

\* C10: when the scroll returns after a successful response, the export
\* replies with the scroll's result, strategy v1-scroll, and the windowed
\* fallback has issued no call, even when the result holds no record.
C10_NoFallbackOnSuccess ==
    ScrollEnded =>
        /\ IsSuccess(reply)
        /\ reply = scrollResult
        /\ reply.strategy = "v1-scroll"
        /\ reply.records = allRecords
        /\ calls.search = 0

\* the scroll's first batch is empty
C10_Witness ==
    /\ ScrollEnded
    /\ reply.strategy = "v1-scroll"
    /\ reply.records = << >>
    /\ calls.scroll = 1
    /\ calls.search = 0

\* the fallback returned on a non-success response
FallbackFailed == Returned /\ response.endpoint = "search" /\ ~response.ok

\* C11: in one export the scroll is started once, from the validated body,
\* and the windowed fallback at most once, from the scroll's failing response
\* and from window 0; neither is started again.  When a fallback call is
\* answered with a non-success status the export replies with the fallback's
\* error and that call's status, and issues no further call.
C11_SingleFallback ==
    [][/\ (pc' = "scroll" /\ pc # "scroll") =>
             (pc = "body" /\ calls = NoCalls /\ inflight'.token = Undefined)
       /\ (pc = "scroll" /\ pc' = "scroll") => inflight'.token # Undefined
       /\ (pc' = "search" /\ pc # "search") =>
             (pc = "scroll" /\ ~response'.ok /\ calls.search = 0 /\ inflight'.from = 0)
       /\ (pc = "search" /\ pc' = "search") => inflight'.from > inflight.from
       /\ (pc = "search") => pc' \in {"search", "done", "caught"}
       /\ (pc \in {"done", "caught"}) => (pc' = pc /\ calls' = calls)
       /\ FallbackFailed' =>
             /\ reply'.error = "Falha ao exportar registros do V1 no fallback."
             /\ reply'.status = response'.status
             /\ reply'.records = << >>
             /\ inflight' = NoRequest
             /\ calls'.scroll = calls.scroll
             /\ calls'.search = calls.search]_vars

\* the scroll failed with 404, the fallback's second call with 500
C11_Witness ==
    /\ FallbackFailed
    /\ scrollResult.status = 404
    /\ response.status = 500
    /\ reply.status = 500
    /\ calls.search = 2

\* C12: when a paged-search call of a V2 export is answered with a
\* non-success status, the export has replied with the V2 error and that
\* status, without records, without a call outstanding and without any call
\* of the V1 strategies.
C12_PagedFailureTerminal ==
    (response.endpoint = "paged" /\ ~response.ok) =>
        /\ Returned
        /\ reply.error = "Falha ao exportar registros do V2."
        /\ reply.status = response.status
        /\ reply.records = << >>
        /\ inflight = NoRequest
        /\ calls.scroll = 0
        /\ calls.search = 0
        /\ calls.paged = batches

\* the third page failed with 404 after two full pages
C12_Witness ==
    /\ response.endpoint = "paged"
    /\ ~response.ok
    /\ response.status = 404
    /\ calls.paged = 3
    /\ Length(allRecords) = 2 * PAGE_SIZE_V2
    /\ reply.records = << >>
    /\ reply.status = 404

\* a body was read and the handler replied 400 without any remote call
RejectedUnsent ==
    /\ body # NoBody
    /\ Returned
    /\ reply.status = 400
    /\ calls = NoCalls
    /\ inflight = NoRequest

\* C14 as stated: a request whose access key or access secret holds a control
\* character at any position, or whose secret is longer than 512 characters,
\* is rejected with a validation error before any remote call.
C14_ControlCharsRejected ==
    (/\ body # NoBody
     /\ \/ hasControlChars(body.appKey)
        \/ hasControlChars(body.appToken)
        \/ Len(body.appToken) > 512) => RejectedUnsent

\* C14 amended: a request whose access key or access secret, once leading
\* and trailing whitespace is stripped, holds a control character, or whose
\* stripped secret is longer than 512 characters, is rejected with a
\* validation error before any remote call.
C14_StrippedCredentials ==
    (/\ body # NoBody
     /\ \/ hasControlChars(normalizeValue(body.appKey))
        \/ hasControlChars(normalizeValue(body.appToken))
        \/ Len(normalizeValue(body.appToken)) > 512) =>
        (RejectedUnsent /\ reply.error # NoError /\ reply.error = "Credenciais invalidas.")

\* a secret with a control character between two letters was rejected
C14_Witness ==
    /\ body.appToken = <<97, 7, 98>>
    /\ RejectedUnsent
    /\ reply.error = "Credenciais invalidas."

\* a step that is one checkRateLimit call; lastCheck' describes the call
CheckStep == now' = now /\ lastCheck' # lastCheck

\* the key of that call has a live entry in the table the call finds
LiveEntry ==
    /\ lastCheck'.key \in DOMAIN rateLimitStore
    /\ rateLimitStore[lastCheck'.key].resetAt > now

\* C15: a check on a key without an entry, or whose entry has resetAt <= now,
\* leaves the entry count = 1, resetAt = now + windowMs and returns allowed
\* with retryAfterMs = windowMs, whatever maxRequests is (0 included).
C15_FreshWindow ==
    [][(CheckStep /\ ~LiveEntry) =>
          /\ rateLimitStore'[lastCheck'.key] =
                [count |-> 1, resetAt |-> now + lastCheck'.windowMs]
          /\ lastCheck'.allowed
          /\ lastCheck'.retryAfterMs = lastCheck'.windowMs]_vars

\* with maxRequests = 0, a check exactly at the reset time of the key's
\* entry opened a new window
C15_Witness ==
    /\ lastCheck.key # NoKey
    /\ lastCheck.maxRequests = 0
    /\ lastCheck.at = now
    /\ lastCheck.admittedBefore = 1
    /\ lastCheck.allowed
    /\ lastCheck.retryAfterMs = lastCheck.windowMs
    /\ rateLimitStore[lastCheck.key] = [count |-> 1, resetAt |-> now + lastCheck.windowMs]
    /\ now = lastCheck.windowMs

\* C16: a check that is denied leaves the whole table as it was and returns
\* retryAfterMs = max(0, resetAt - now) of the checked entry.
C16_DeniedNoMutation ==
    [][(CheckStep /\ ~lastCheck'.allowed) =>
          /\ rateLimitStore' = rateLimitStore
          /\ LiveEntry
          /\ LET left == rateLimitStore[lastCheck'.key].resetAt - now
             IN lastCheck'.retryAfterMs = IF left > 0 THEN left ELSE 0]_vars

\* a denied check while another key has an entry too
C16_Witness ==
    /\ lastCheck.key # NoKey
    /\ ~lastCheck.allowed
    /\ lastCheck.at = now
    /\ lastCheck.maxRequests = MaxN
    /\ Cardinality(DOMAIN rateLimitStore) = 2
    /\ lastCheck.retryAfterMs = rateLimitStore[lastCheck.key].resetAt - now
    /\ lastCheck.retryAfterMs = 1

\* C17: a check on a key with a live entry whose count is below maxRequests
\* adds exactly 1 to the count, leaves resetAt and every other entry as they
\* were, and returns allowed with retryAfterMs = max(0, resetAt - now).
C17_IncrementKeepsWindow ==
    [][(/\ CheckStep
        /\ LiveEntry
        /\ rateLimitStore[lastCheck'.key].count < lastCheck'.maxRequests) =>
          LET existing == rateLimitStore[lastCheck'.key]
              left     == existing.resetAt - now
          IN /\ rateLimitStore'[lastCheck'.key] =
                   [count |-> existing.count + 1, resetAt |-> existing.resetAt]
             /\ DOMAIN rateLimitStore' = DOMAIN rateLimitStore
             /\ \A k \in DOMAIN rateLimitStore \ {lastCheck'.key} :
                   rateLimitStore'[k] = rateLimitStore[k]
             /\ lastCheck'.allowed
             /\ lastCheck'.retryAfterMs = IF left > 0 THEN left ELSE 0]_vars

\* the second allowed check of a window, one time unit after it was opened
C17_Witness ==
    /\ lastCheck.key # NoKey
    /\ lastCheck.allowed
    /\ lastCheck.inWindow
    /\ lastCheck.at = now
    /\ lastCheck.admittedBefore = 1
    /\ lastCheck.windowMs = 2
    /\ rateLimitStore[lastCheck.key] = [count |-> 2, resetAt |-> now + 1]
    /\ lastCheck.retryAfterMs = 1

\* the table holds an entry whose window has elapsed
ExpiredLeft(store, t) == \E k \in DOMAIN store : store[k].resetAt <= t

\* C18 as stated: a check made while the table holds more than 1000 keys
\* leaves no entry whose reset time is <= now, whatever its outcome.
C18_SweepOnEveryCall ==
    [][(CheckStep /\ Cardinality(DOMAIN rateLimitStore) > SWEEP_THRESHOLD) =>
          ~ExpiredLeft(rateLimitStore', now)]_vars

\* C18, the code: of the checks made while the table holds more than 1000
\* keys only one that increments a live entry sweeps; any other leaves every
\* other entry in the table.
C18_SweepOnIncrementOnly ==
    [][(CheckStep /\ Cardinality(DOMAIN rateLimitStore) > SWEEP_THRESHOLD) =>
          IF /\ LiveEntry
             /\ rateLimitStore[lastCheck'.key].count < lastCheck'.maxRequests
          THEN ~ExpiredLeft(rateLimitStore', now)
          ELSE \A k \in DOMAIN rateLimitStore \ {lastCheck'.key} :
                  k \in DOMAIN rateLimitStore' /\ rateLimitStore'[k] = rateLimitStore[k]]_vars

\* a check opened a new window in a table of more than 1000 keys and left
\* the elapsed entries of the other clients in it
C18_Witness ==
    /\ lastCheck.key # NoKey
    /\ lastCheck.at = now
    /\ ~lastCheck.inWindow
    /\ lastCheck.allowed
    /\ lastCheck.admittedBefore > 0
    /\ Cardinality(DOMAIN rateLimitStore) > SWEEP_THRESHOLD
    /\ ExpiredLeft(rateLimitStore, now)

RECURSIVE SumAges(_, _)
\* the checks counted by f at ages 0..age
SumAges(f, age) == IF age < 0 THEN 0 ELSE f[age] + SumAges(f, age - 1)

\* the checks on `key` allowed in the time interval [now - windowMs, now]
AllowedWithinWindow(key) ==
    SumAges(recent[key], IF lastCheck.windowMs < MaxW THEN lastCheck.windowMs ELSE MaxW)

\* C19: with maxRequests = N >= 1, a key has at most N allowed checks
\* between the opening of a window and its reset time, and at most 2N in any
\* time interval of length windowMs.
C19_TwiceTheQuota ==
    lastCheck.maxRequests >= 1 =>
        \A k \in RLKeys :
            /\ admitted[k] <= lastCheck.maxRequests
            /\ AllowedWithinWindow(k) <= 2 * lastCheck.maxRequests

\* a burst across a window boundary: N allowed checks in a window, the first
\* of them when it was opened, and N more at the instant it is reset
C19_Witness ==
    /\ lastCheck.maxRequests = MaxN
    /\ lastCheck.windowMs = MaxW
    /\ \E k \in RLKeys :
          /\ recent[k][MaxW] >= 1
          /\ recent[k][0] = MaxN
          /\ AllowedWithinWindow(k) = 2 * MaxN

\* a paged-search call is outstanding: it asks for the page whose number is
\* the count of paged calls, 100 records, under the schema of the run, and
\* every earlier page came back full
PagedCallInOrder ==
    pc = "paged" =>
        /\ inflight.endpoint = "paged"
        /\ inflight.page = calls.paged
        /\ inflight.size = 100
        /\ inflight.schema = schemaToUse
        /\ schemaToUse # NoSchema
        /\ (schema # NoSchema) => (schemaToUse = schema /\ calls.schemas = 0)
        /\ (schema = NoSchema /\ calls.paged = 1) =>
              /\ response.endpoint = "schemas"
              /\ \E i \in 1..Len(response.names) :
                    /\ response.names[i] = schemaToUse
                    /\ \A j \in 1..(i - 1) : response.names[j] = NoSchema
        /\ (calls.paged > 1) =>
              (response.endpoint = "paged" /\ response.ok /\ response.len = 100)

\* the paged search returned after a successful response
PagedEnded == Returned /\ response.endpoint = "paged" /\ response.ok

\* C20: the paged search asks for pages 1, 2, 3, ... in order, one per call,
\* each of 100 records and under the resolved schema, which never changes
\* during the run; it returns truncated = false on the first page shorter
\* than 100 and truncated = true, batches = 200 after 200 full pages.
C20_PagedSearch ==
    [][/\ PagedCallInOrder'
       /\ (pc = "paged" /\ pc' = "paged") =>
             /\ inflight'.page = inflight.page + 1
             /\ inflight'.schema = inflight.schema
       /\ (pc' = "paged" /\ pc # "paged") => inflight'.page = 1
       /\ PagedEnded' =>
             /\ reply'.status = 200
             /\ reply'.strategy = "v2-search"
             /\ reply'.batches = calls'.paged
             /\ Length(reply'.records) = (calls'.paged - 1) * 100 + response'.len
             /\ IF response'.len < 100
                THEN ~reply'.truncated
                ELSE reply'.truncated /\ reply'.batches = 200]_vars

\* no schema was supplied, the listing's first named entry is its second
\* one, and the third page came back short
C20_Witness ==
    /\ PagedEnded
    /\ schema = NoSchema
    /\ schemaToUse = S2
    /\ calls.paged = 3
    /\ response.len = ShortLen
    /\ reply.batches = 3
    /\ ~reply.truncated

\* the handler replied 429, or 400 on the request body
Rejected ==
    /\ Returned
    /\ \/ reply.status = 429
       \/ /\ reply.status = 400
          /\ reply.error # "Nenhum schema disponivel para esta entidade no V2."

\* no remote call has been issued and no strategy or probe has been started
NothingSent ==
    /\ calls = NoCalls
    /\ inflight = NoRequest
    /\ response = NoResponse
    /\ batches = 0
    /\ page = 0
    /\ queryResult = NoQuery
    /\ probe = 0

\* page or pageSize of a page query's body is outside its bounds
PaginationOutOfBounds(b) ==
    \/ b.page.kind = "other"
    \/ b.page.kind = "int" /\ (b.page.n < 1 \/ b.page.n > 10000)
    \/ b.pageSize.kind = "other"
    \/ b.pageSize.kind = "int" /\ (b.pageSize.n < 1 \/ b.pageSize.n > 200)

\* C13: in the export and in the page query, a request the rate limiter
\* denies (429) or validation rejects (400) has caused no remote call and
\* started no strategy, fallback or probe; a denied request's body is not
\* even read, a page query with page or pageSize out of bounds is rejected,
\* and every other request that was read has issued a call.
C13_RejectedUnsent ==
    /\ Rejected => NothingSent
    /\ (Returned /\ reply.status = 429) => (~lastCheck.allowed /\ body = NoBody)
    /\ (body # NoBody /\ "page" \in DOMAIN body /\ PaginationOutOfBounds(body)) =>
          (Rejected /\ reply.status = 400)
    /\ (pc \notin {"idle", "body", "docBody", "caught"} /\ ~Rejected) => calls # NoCalls

\* a page query whose page size is above the bound was rejected
C13_Witness ==
    /\ Rejected
    /\ body # NoBody
    /\ "pageSize" \in DOMAIN body
    /\ body.pageSize = JInt(MAX_PAGE_SIZE + 1)
    /\ reply.error = "Tamanho de pagina invalido."
    /\ NothingSent

\* a search under the schema of a V2 request is outstanding
SchemaSearchOutstanding == pc \in {"paged", "docSecond"}

\* the listing answered with success and holds an entry with a name
ListingResolves ==
    /\ response.ok
    /\ \E i \in 1..Len(response.names) : response.names[i] # NoSchema

\* C21: for a V2 request with a schema, no listing call is ever issued and
\* the schema searched under is the supplied one; without a schema, exactly
\* one listing call precedes the search, and the schema searched under is the
\* first listed entry that has a name, while a listing that failed, is empty
\* or names no entry resolves to no schema (reply 400, no search under a
\* schema).
C21_SchemaResolver ==
    version = "v2" =>
        /\ calls.schemas <= 1
        /\ (schema # NoSchema) =>
              /\ calls.schemas = 0
              /\ schemaToUse \in {NoSchema, schema}
              /\ SchemaSearchOutstanding =>
                    (schemaToUse = schema /\ inflight.schema = schema)
        /\ (schema = NoSchema /\ SchemaSearchOutstanding) =>
              (calls.schemas = 1 /\ schemaToUse # NoSchema /\ inflight.schema = schemaToUse)
        /\ (schema = NoSchema /\ response.endpoint = "schemas") =>
              IF ListingResolves
              THEN /\ \E i \in 1..Len(response.names) :
                         /\ response.names[i] = schemaToUse
                         /\ response.names[i] # NoSchema
                         /\ \A j \in 1..(i - 1) : response.names[j] = NoSchema
                   /\ pc \in {"paged", "docSecond", "caught"}
              ELSE /\ schemaToUse = NoSchema
                   /\ Returned
                   /\ reply.status = 400
                   /\ calls.paged = 0
                   /\ inflight = NoRequest

\* an export without a schema whose listing names its second entry only
C21_Witness ==
    /\ version = "v2"
    /\ schema = NoSchema
    /\ pc = "paged"
    /\ calls.schemas = 1
    /\ response.endpoint = "schemas"
    /\ response.names = <<NoSchema, S2>>
    /\ schemaToUse = S2

\* the page query replied with a page of records
PageReturned ==
    /\ Returned
    /\ "pagination" \in DOMAIN reply
    /\ reply.status = 200

\* the search calls a V1 page query has issued as probes
ProbesIssued == IF probe <= Len(schemas) THEN probe ELSE Len(schemas)

\* C22 as stated: a page query issues one search call, for V2 as for V1; the
\* only further search calls are the probes of V1 after an empty first page,
\* and a V2 query that finds no schema issues no search call.
C22_OneSearchPerQuery ==
    /\ (version = "v2") => calls.search <= 1
    /\ (version = "v1") => calls.search = 1 + ProbesIssued
    /\ (PageReturned /\ version = "v2") => calls.search = 1
    /\ (/\ Returned
        /\ version = "v2"
        /\ reply.error = "Nenhum schema disponivel para esta entidade no V2.") =>
          calls.search = 0

\* a V2 page query with a schema returned a page after two search calls
C22_Witness ==
    /\ PageReturned
    /\ version = "v2"
    /\ schema = S1
    /\ calls.search = 2
    /\ calls.schemas = 0

\* C23 as stated: the page a query returns comes from a search under the
\* supplied schema whenever one was supplied, for V1 as for V2, and under
\* the first resolved schema for V2 without one; schemaUsed names it.
C23_SuppliedSchemaUsed ==
    PageReturned =>
        /\ reply.schemaUsed = queryResult.schemaUsed
        /\ (schema # NoSchema) => reply.schemaUsed = schema
        /\ (schema = NoSchema /\ version = "v2") =>
              (schemas # << >> /\ reply.schemaUsed = schemas[1])

\* a V1 page query with a schema returned the page of the search without
\* schema
C23_Witness ==
    /\ PageReturned
    /\ version = "v1"
    /\ schema = S1
    /\ reply.len > 0
    /\ reply.schemaUsed = NoSchema
    /\ calls.search = 1

\* C24 as stated: when the total is known, totalPages is the least k >= 0
\* with k * pageSize >= total (the ceiling of total / pageSize, which is 0
\* for total = 0); when the total is unknown, totalPages is unknown.
C24_CeilTotalPages ==
    PageReturned =>
        LET p == reply.pagination
        IN IF p.total.known
           THEN /\ p.totalPages.known
                /\ p.totalPages.n >= 0
                /\ p.totalPages.n * p.pageSize >= p.total.n
                /\ (p.totalPages.n >= 1) =>
                      (p.totalPages.n - 1) * p.pageSize < p.total.n
           ELSE ~p.totalPages.known

\* C24: in the response of a page query, when the remote total is known,
\* totalPages is the larger of 1 and the ceiling of total / pageSize: the
\* least k >= 1 with k * pageSize >= total, so 1 for total = 0; when the
\* total is unknown, totalPages is unknown. The total and the page size are
\* those of the returned search and of the request.
C24_TotalPages ==
    PageReturned =>
        LET p == reply.pagination
        IN /\ p.total = queryResult.total
           /\ p.pageSize = pageSize
           /\ p.pageSize \in 1..MAX_PAGE_SIZE
           /\ IF p.total.known
              THEN /\ p.totalPages.known
                   /\ p.totalPages.n >= 1
                   /\ p.totalPages.n * p.pageSize >= p.total.n
                   /\ (p.totalPages.n > 1) =>
                         (p.totalPages.n - 1) * p.pageSize < p.total.n
              ELSE ~p.totalPages.known

\* a page query returned an empty collection as one page
C24_Witness ==
    /\ PageReturned
    /\ reply.pagination.total = Total(0)
    /\ reply.pagination.totalPages = Total(1)

\* C25: in the response of a page query, hasPrevious is true iff page > 1;
\* when the total is known hasNext is true iff page < totalPages, however
\* many records the batch holds (total 95, page size 25: true on pages 1 to
\* 3, false on page 4); when the total is unknown hasNext is true iff the
\* batch holds exactly pageSize records.
C25_PreviousAndNext ==
    PageReturned =>
        LET p == reply.pagination
        IN /\ p.page = page
           /\ p.hasPrevious <=> (p.page > 1)
           /\ p.total.known => (p.hasNext <=> (p.page < p.totalPages.n))
           /\ ~p.total.known => (p.hasNext <=> (reply.len = p.pageSize))
           /\ (p.total = Total(95) /\ p.pageSize = 25) =>
                 /\ p.totalPages = Total(4)
                 /\ (p.page \in 1..3) => p.hasNext
                 /\ (p.page = 4) => ~p.hasNext

\* the last of four pages of 95 records, returned with a batch shorter than
\* the page size
C25_Witness ==
    /\ PageReturned
    /\ reply.pagination.total = Total(SampleDocTotal)
    /\ reply.pagination.pageSize = 25
    /\ reply.pagination.page = 4
    /\ reply.len \in 1..24
    /\ reply.pagination.hasPrevious
    /\ ~reply.pagination.hasNext

\* the schemas a listing response makes discoverable, in listing order
Discoverable(resp) ==
    IF resp.ok THEN SelectSeq(resp.names, LAMBDA n : n # NoSchema) ELSE << >>

\* the reply is the empty page of the first search of a V1 page query
OriginalEmptyPage ==
    /\ PageReturned
    /\ reply.len = 0
    /\ reply.error = ""
    /\ reply.schemaUsed = NoSchema

\* the outstanding call is the probe of a discoverable schema, the one at
\* position `probe` of the listing, for the page and page size of the request
ProbeOutstanding ==
    /\ pc = "docProbe"
    /\ probe \in 1..Len(schemas)
    /\ inflight.endpoint = "search"
    /\ inflight.schema = schemas[probe]
    /\ inflight.from = (page - 1) * pageSize
    /\ inflight.to = inflight.from + pageSize - 1
    /\ calls.search = 1 + probe

\* the handler receives the response of its first search
FirstSearchStep == pc = "docFirst" /\ pc' # "caught" /\ pc' # "docFirst"

\* the handler receives the listing it asked for after an empty first page
ProbeListStep == pc = "docProbeList" /\ pc' # "caught" /\ pc' # "docProbeList"

\* the handler receives the response of a probe
ProbeStep ==
    /\ pc = "docProbe"
    /\ pc' # "caught"
    /\ (pc' # "docProbe" \/ calls' # calls)

\* C26: in a V1 page query whose first search succeeds with an empty batch,
\* the discoverable schemas are probed one at a time in listing order with
\* the page and page size of the request; the first probe that succeeds with
\* a non-empty batch ends the probing and its records and schema are the
\* response; if none does, or the listing failed or is empty, the response
\* is the original empty success. No probe follows a first search that is
\* non-empty or failed, and V2 never probes.
C26_EmptyPageProbes ==
    [][/\ (version = "v2")' => (pc \notin {"docProbeList", "docProbe"})'
       /\ (pc \in {"docProbeList", "docProbe"})' =>
             (queryResult.ok /\ queryResult.len = 0
                /\ queryResult.schemaUsed = NoSchema)'
       /\ (pc = "docProbe")' => ProbeOutstanding'
       /\ (FirstSearchStep /\ version = "v1") =>
             IF response'.ok /\ response'.len = 0
             THEN /\ pc' = "docProbeList"
                  /\ inflight'.endpoint = "schemas"
                  /\ calls'.search = 1
             ELSE /\ Returned'
                  /\ calls' = calls
                  /\ reply'.schemaUsed = NoSchema
                  /\ IF response'.ok
                     THEN reply'.status = 200 /\ reply'.len = response'.len
                     ELSE reply'.status = response'.status /\ reply'.error # ""
       /\ ProbeListStep =>
             IF Discoverable(response') = << >>
             THEN OriginalEmptyPage' /\ calls'.search = 1
             ELSE /\ schemas' = Discoverable(response')
                  /\ probe' = 1
                  /\ ProbeOutstanding'
       /\ ProbeStep =>
             IF response'.ok /\ response'.len > 0
             THEN /\ PageReturned'
                  /\ reply'.len = response'.len
                  /\ reply'.schemaUsed = schemas[probe]
                  /\ calls' = calls
             ELSE IF probe < Len(schemas)
                  THEN /\ schemas' = schemas
                       /\ probe' = probe + 1
                       /\ ProbeOutstanding'
                  ELSE OriginalEmptyPage' /\ calls' = calls
      ]_vars

\* the first of two discoverable schemas yielded the page, and the second
\* was not probed
C26_Witness ==
    /\ PageReturned
    /\ version = "v1"
    /\ Len(schemas) = 2
    /\ probe = 1
    /\ calls.search = 2
    /\ calls.schemas = 1
    /\ reply.len > 0
    /\ reply.schemaUsed = schemas[1]

\* a request arrives at one of the two routes and its rate limit is checked
RequestStep == pc = "idle" /\ pc' # "idle"

\* the client key of a request: the first forwarded address, else the
\* address the proxy reports, else the bucket of those that carry neither
ClientOf(headers) ==
    IF headers.forwardedFor = << >> /\ headers.realIp = "" THEN "unknown"
    ELSE IF headers.forwardedFor = << >> THEN headers.realIp
    ELSE Head(headers.forwardedFor)

\* C27: the rate-limit state is partitioned by operation and client key.  A
\* request checks the bucket of its own route and client, under 30 per
\* 60 s for the export and 120 per 60 s for the page query; the check
\* leaves every other bucket as it was and its outcome depends on its own
\* bucket only; a bucket of the export never admits more than 30 requests
\* in a window and one of the page query never more than 120; the requests
\* that carry neither forwarded-address header are all checked against the
\* bucket `unknown` of their route.
C27_BucketsPartitioned ==
    [][RequestStep =>
         LET k == lastCheck'.key
             limit == IF k[1] = "export" THEN 30 ELSE 120
         IN /\ k[1] \in {"export", "documents"}
            /\ lastCheck'.maxRequests = limit
            /\ lastCheck'.windowMs = 60000
            /\ \A h \in BucketHeaders :
                  /\ PostExport(h) => k = <<"export", ClientOf(h)>>
                  /\ PostDocuments(h) => k = <<"documents", ClientOf(h)>>
            /\ \A j \in TrackedKeys \ {k} :
                  /\ (j \in DOMAIN rateLimitStore') <=> (j \in DOMAIN rateLimitStore)
                  /\ (j \in DOMAIN rateLimitStore) =>
                        rateLimitStore'[j] = rateLimitStore[j]
                  /\ admitted'[j] = admitted[j]
            /\ DOMAIN rateLimitStore' = DOMAIN rateLimitStore \cup {k}
            /\ lastCheck'.allowed <=>
                  ~(now < windowEnd[k] /\ admitted[k] >= limit)
            /\ (pc' = "done") <=> ~lastCheck'.allowed
            /\ ~lastCheck'.allowed => reply'.status = 429
            /\ \A j \in TrackedKeys :
                  admitted'[j] <= (IF j[1] = "export" THEN 30 ELSE 120)
    ]_vars

\* the 31st export of a client is denied while the page queries of the same
\* client and the exports of the clients without address are being admitted
C27_Witness ==
    /\ pc = "done"
    /\ reply.status = 429
    /\ lastCheck.key = <<"export", "10.0.0.1">>
    /\ admitted[<<"export", "10.0.0.1">>] = 30
    /\ now < windowEnd[<<"export", "10.0.0.1">>]
    /\ admitted[<<"documents", "10.0.0.1">>] = 120
    /\ admitted[<<"export", "unknown">>] = 1
    /\ admitted[<<"documents", "unknown">>] = 2
    /\ windowEnd[<<"export", "unknown">>] = windowEnd[<<"export", "10.0.0.1">>]

\* the remote endpoints of the export
Endpoints == {"scroll", "search", "schemas", "paged"}

\* the handler issues a remote call
IssueStep == calls' # calls

\* C28: within one export at most one remote call is outstanding.  A call is
\* issued either first of all, from the body, or in the step that receives
\* the response of the outstanding call, which it replaces; the fallback's
\* first call is issued on the scroll's failing response; the next scroll
\* call carries the token of the response just received, the next window
\* starts where the window just answered ended, the next page follows the
\* page just answered.
C28_OneOutstandingCall ==
    [][/\ (inflight # NoRequest)' <=> (pc \in Endpoints)'
       /\ (pc \in Endpoints)' => (inflight.endpoint = pc)'
       /\ IssueStep =>
             /\ \E e \in Endpoints :
                   /\ calls'[e] = calls[e] + 1
                   /\ \A o \in Endpoints \ {e} : calls'[o] = calls[o]
                   /\ inflight'.endpoint = e
             /\ IF inflight = NoRequest
                THEN pc = "body" /\ response' = response
                ELSE /\ pc = inflight.endpoint
                     /\ response'.endpoint = inflight.endpoint
             /\ (inflight'.endpoint = "scroll") =>
                   /\ inflight'.token = token'
                   /\ IF calls.scroll = 0
                      THEN inflight = NoRequest /\ inflight'.token = Undefined
                      ELSE /\ inflight.endpoint = "scroll"
                           /\ response'.ok
                           /\ inflight'.token = response'.nextToken
             /\ (inflight'.endpoint = "search") =>
                   /\ inflight'.to = inflight'.from + 99
                   /\ IF calls.search = 0
                      THEN /\ inflight.endpoint = "scroll"
                           /\ ~response'.ok
                           /\ inflight'.from = 0
                      ELSE /\ inflight.endpoint = "search"
                           /\ response'.ok
                           /\ inflight'.from = inflight.to + 1
             /\ (inflight'.endpoint = "paged") =>
                   /\ inflight'.page = page'
                   /\ IF calls.paged = 0
                      THEN /\ inflight'.page = 1
                           /\ \/ inflight = NoRequest
                              \/ inflight.endpoint = "schemas" /\ response'.ok
                      ELSE /\ inflight.endpoint = "paged"
                           /\ response'.ok
                           /\ inflight'.page = inflight.page + 1
             /\ (inflight'.endpoint = "schemas") =>
                   (inflight = NoRequest /\ calls.schemas = 0)
      ]_vars

\* the second window of the fallback is outstanding, after the scroll's
\* first call failed
C28_Witness ==
    /\ pc = "search"
    /\ calls.scroll = 1
    /\ calls.search = 2
    /\ inflight.endpoint = "search"
    /\ inflight.from = 100
    /\ response.endpoint = "search"
    /\ response.ok

\* the handler receives a non-success response to its outstanding call
FailedResponseStep == pc \in Endpoints /\ pc' # "caught" /\ ~response'.ok

\* C29: in every retrieval strategy a remote call that returns non-success
\* is the strategy's last: the step that receives it issues no call to that
\* endpoint (the failed call is not issued again and no later page, window
\* or token is asked for); the scroll's failure is followed by the
\* fallback's first window only, any other failure by the return; the
\* scroll, once failed, never calls again.
C29_FailFast ==
    [][/\ FailedResponseStep =>
             /\ response'.endpoint = pc
             /\ calls'[pc] = calls[pc]
             /\ inflight'.endpoint # pc
             /\ IF pc = "scroll"
                THEN /\ IsError(scrollResult')
                     /\ scrollResult'.status = response'.status
                     /\ pc' = "search"
                     /\ inflight'.from = 0
                     /\ calls' = [calls EXCEPT !.search = 1]
                ELSE /\ Returned'
                     /\ IsError(reply')
                     /\ calls' = calls
                     /\ inflight' = NoRequest
       /\ IsError(scrollResult) => calls'.scroll = calls.scroll
      ]_vars

\* the second page of the V2 search failed and the export returned the
\* failure after two calls
C29_Witness ==
    /\ Returned
    /\ response.endpoint = "paged"
    /\ ~response.ok
    /\ calls.paged = 2
    /\ IsError(reply)
    /\ reply.status = response.status

\* the remote calls counted in c
CallsIssued(c) == c.scroll + c.search + c.schemas + c.paged

\* C30 as stated: once the caller has closed the connection during an
\* export, the loop issues at most one more remote call after the one that
\* was outstanding, and does not run on to its natural end or to the cap of
\* 200 batches.
C30_CancelStopsLoop ==
    signal.aborted =>
        /\ CallsIssued(calls) <= CallsIssued(signal.seen) + 1
        /\ batches < MAX_BATCHES

\* the caller closed the connection during the first scroll call and the
\* scroll ran on to the cap of 200 batches
C30_Witness ==
    /\ signal.aborted
    /\ signal.seen = [NoCalls EXCEPT !.scroll = 1]
    /\ Returned
    /\ calls.scroll = MAX_BATCHES
    /\ reply.truncated

\* the endpoint whose batches a strategy gathers
EndpointOf(strategy) ==
    CASE strategy = "v1-scroll" -> "scroll"
      [] strategy = "v1-search-fallback" -> "search"
      [] strategy = "v2-search" -> "paged"
      [] OTHER -> "none"

\* the offset, in the order the remote serves the data set, of the first
\* record of the batch that answers the outstanding call
BatchOffset ==
    CASE inflight.endpoint = "scroll" -> Length(allRecords)
      [] inflight.endpoint = "search" -> inflight.from
      [] inflight.endpoint = "paged" -> (inflight.page - 1) * inflight.size
      [] OTHER -> 0

\* new is old followed by the len records of src from offset lo on
Followed(old, new, src, lo, len) ==
    IF len = 0 THEN new = old
    ELSE /\ new # << >>
         /\ new[Len(new)].src = src
         /\ new[Len(new)].hi = lo + len - 1
         /\ Length(new) = Length(old) + len
         /\ \/ /\ Len(new) = Len(old) + 1
               /\ SubSeq(new, 1, Len(old)) = old
               /\ new[Len(new)].lo = lo
            \/ /\ Len(new) = Len(old)
               /\ old # << >>
               /\ SubSeq(new, 1, Len(old) - 1) = SubSeq(old, 1, Len(old) - 1)
               /\ new[Len(new)].lo = old[Len(old)].lo
               /\ old[Len(old)].src = src
               /\ old[Len(old)].hi + 1 = lo

\* a strategy receives a batch
BatchStep ==
    /\ pc \in {"scroll", "search", "paged"}
    /\ pc' # "caught"
    /\ response'.ok

\* a strategy issues its first call
StrategyStarts(e) == calls[e] = 0 /\ calls'[e] = 1

\* C31: the records of a successful export are the batches of the strategy
\* it names, concatenated in call order: a strategy starts with no records,
\* every batch it receives is appended whole after the records gathered
\* before it, and what it returns, also at the batch cap and on a repeated
\* token, is a success holding all the records gathered so far.
C31_BatchesConcatenated ==
    [][/\ \A e \in {"scroll", "search", "paged"} :
             StrategyStarts(e) => allRecords' = << >>
       /\ BatchStep =>
             /\ Followed(allRecords, allRecords', pc, BatchOffset, response'.len)
             /\ \A i \in 1..Len(allRecords') : allRecords'[i].src = pc
             /\ Returned' =>
                   /\ IsSuccess(reply')
                   /\ EndpointOf(reply'.strategy) = pc
                   /\ reply'.records = allRecords'
                   /\ reply'.batches = calls[pc]
      ]_vars

\* the scroll ended on a repeated token after three full batches, and the
\* export returned the 300 records as a truncated success
C31_Witness ==
    /\ ScrollEnded
    /\ RepeatedNext
    /\ calls.scroll = 3
    /\ IsSuccess(reply)
    /\ reply.truncated
    /\ reply.strategy = "v1-scroll"
    /\ reply.records = <<[src |-> "scroll", lo |-> 0, hi |-> 299]>>

\* the names a lookup makes known: those of a successful response
NamedBy(result) ==
    IF result.status = "fulfilled" /\ result.resp.ok
    THEN SelectSeq(result.resp.names, LAMBDA n : n # NoSchema)
    ELSE << >>

RECURSIVE RowsBefore(_)
\* the number of rows owed to the entities before entity i
RowsBefore(i) ==
    IF i <= 1 THEN 0 ELSE RowsBefore(i - 1) + Len(NamedBy(settled[i - 1]))

\* the V2 listing replied with its rows
ListingReturned ==
    /\ Returned
    /\ "entities" \in DOMAIN reply
    /\ version \notin {"none", "v1"}

\* C32: in the V2 entity listing all lookups are outstanding together and
\* settle in any order, each on its own; a lookup that fails or throws
\* leaves the others as they are and the listing goes on; the listing is a
\* success that holds, entity by entity in listing order, one row per named
\* schema of each successful lookup in the order the lookup listed them, and
\* nothing else.
C32_IndependentLookups ==
    [][/\ (pc = "entLookups" /\ pc' = "entLookups") =>
             \E i \in 1..Len(settled) :
                /\ settled[i].status = "pending"
                /\ settled'[i].status # "pending"
                /\ \A j \in (1..Len(settled)) \ {i} : settled'[j] = settled[j]
       /\ (pc = "entLookups") => pc' \in {"entLookups", "done"}
       /\ (pc = "entLookups" /\ pc' = "done") =>
             /\ \A i \in 1..Len(settled) : settled[i].status # "pending"
             /\ settled' = settled
       /\ (pc = "entList" /\ pc' = "entLookups") =>
             /\ Len(settled') = Len(entities')
             /\ \A i \in 1..Len(settled') : settled'[i].status = "pending"
       /\ ListingReturned' =>
             IF reply'.status # 200
             THEN pc = "entList" /\ ~response'.ok
             ELSE /\ reply'.version = "v2"
                  /\ Len(reply'.entities) = RowsBefore(Len(entities) + 1)
                  /\ \A i \in 1..Len(entities) :
                        \A j \in 1..Len(NamedBy(settled[i])) :
                           reply'.entities[RowsBefore(i) + j] =
                              [acronym |-> entities[i].acronym,
                               schema |-> NamedBy(settled[i])[j]]
      ]_vars

\* of three entities the lookup of the first threw and that of the second
\* failed, the third settled first, and the listing holds the rows of the
\* third
C32_Witness ==
    /\ ListingReturned
    /\ reply.status = 200
    /\ Len(entities) = 3
    /\ settled[1].status = "rejected"
    /\ settled[2].status = "fulfilled"
    /\ ~settled[2].resp.ok
    /\ settled[3].resp.names = <<S2, S1>>
    /\ response = settled[2].resp
    /\ reply.entities = <<[acronym |-> "CC", schema |-> S2],
                          [acronym |-> "CC", schema |-> S1]>>

\* the bucket of the client whose two exports run concurrently
PairKey == <<"export", "10.0.0.1">>

\* the handler with these locals was admitted by the rate limiter
AdmittedHandler(l) == l.pc # "idle" /\ ~(l.pc = "done" /\ l.reply.status = 429)

\* the handler with these locals was denied by the rate limiter
DeniedHandler(l) == l.pc = "done" /\ l.reply.status = 429

\* the number of the two handlers that were admitted
AdmittedHandlers ==
    (IF AdmittedHandler(Locals) THEN 1 ELSE 0) + (IF AdmittedHandler(other) THEN 1 ELSE 0)

\* the running handler enters POST and checks the rate limit
PairCheckStep == pc = "idle" /\ pc' # "idle" /\ other' = other

\* the count of the client's entry, 0 when it has none
PairCount == IF PairKey \in DOMAIN rateLimitStore THEN rateLimitStore[PairKey].count ELSE 0

\* C33: under every interleaving of two handlers at their awaits, a check
\* of the rate limit reads and updates the table in one step: the table
\* changes in check steps only, an allowed check raises the count of its key
\* by exactly one over what the last check left, whichever handler made it,
\* and a denied one leaves the table alone; no increment is lost (the count
\* of a live entry is the number of requests admitted in its window) and
\* the requests admitted in one window across both handlers never exceed 30.
C33_AtomicChecks ==
    [][/\ ~PairCheckStep => rateLimitStore' = rateLimitStore
       /\ PairCheckStep =>
             /\ lastCheck'.key = PairKey
             /\ lastCheck'.allowed <=> (PairCount < 30)
             /\ lastCheck'.allowed => PairCount' = PairCount + 1
             /\ ~lastCheck'.allowed => rateLimitStore' = rateLimitStore
             /\ lastCheck'.allowed <=> (pc' = "body")
             /\ ~lastCheck'.allowed => DeniedHandler(Locals)'
       /\ (PairCount = admitted[PairKey])'
       /\ (PairCount <= 30)'
       /\ (PairCount \in {AdmittedHandlers, 29 + AdmittedHandlers})'
       /\ (DeniedHandler(Locals) \/ DeniedHandler(other))' => (PairCount = 30)'
      ]_vars

\* the 30th request of the window is being served while the 31st, which
\* arrived during the first remote call of the 30th, has been denied
C33_Witness ==
    /\ DeniedHandler(Locals)
    /\ other.pc = "scroll"
    /\ other.calls.scroll = 1
    /\ PairCount = 30
    /\ admitted[PairKey] = 30

\* the locals of a handler are those of a run that has received only full
\* batches with fresh tokens from its own calls
OwnProgress(l) ==
    /\ (l.pc = "scroll") =>
          /\ l.visitedTokens = 1..(l.calls.scroll - 1)
          /\ l.token = (IF l.calls.scroll = 1 THEN Undefined ELSE l.calls.scroll - 1)
          /\ l.inflight.token = l.token
          /\ l.batches = l.calls.scroll
          /\ Length(l.allRecords) = 100 * (l.calls.scroll - 1)
    /\ (l.pc = "search") =>
          /\ l.page = l.calls.search
          /\ l.inflight.from = 100 * (l.calls.search - 1)
          /\ l.batches = l.calls.search
          /\ Length(l.allRecords) = 100 * (l.calls.search - 1)
    /\ (l.pc = "paged") =>
          /\ l.page = l.calls.paged
          /\ l.inflight.page = l.page
          /\ l.batches = l.calls.paged
          /\ Length(l.allRecords) = 100 * (l.calls.paged - 1)
    /\ (l.pc = "done" /\ IsSuccess(l.reply)) =>
          /\ l.reply.records = l.allRecords
          /\ l.reply.batches = l.calls[l.response.endpoint]
          /\ Length(l.allRecords) = 100 * (l.reply.batches - 1) + l.response.len
          /\ (l.reply.strategy = "v1-scroll") =>
                (l.reply.truncated <=>
                    l.response.nextToken \in 1..(l.calls.scroll - 1))

\* the runtime switches handlers
SwitchStep == other' # other

\* C39: two exports that run concurrently share no locals.  A step of the
\* running export leaves the token, the visited set, the page and batch
\* counters and the records of the suspended one as they are; a switch
\* hands the resumed export exactly the locals it was suspended with; so
\* the locals and the result of each export follow from its own calls and
\* the answers to them, as in a run alone.
C39_ExportsIsolated ==
    [][/\ SwitchStep => (Locals' = [other EXCEPT !.table = rateLimitStore']
                          /\ [other' EXCEPT !.table = << >>] =
                                [Locals EXCEPT !.table = << >>])
       /\ ~SwitchStep => other' = other
       /\ OwnProgress(Locals)'
       /\ OwnProgress(other)'
      ]_vars

\* one export returned truncated on a token it had seen itself, while the
\* other, suspended in its second scroll call, holds its own first token
C39_Witness ==
    /\ ScrollEnded
    /\ reply.truncated
    /\ calls.scroll = 2
    /\ response.nextToken = 1
    /\ visitedTokens = {1}
    /\ other.pc = "scroll"
    /\ other.calls.scroll = 2
    /\ other.visitedTokens = {1}
    /\ other.token = 1

\* the scroll issues a call
ScrollIssueStep == calls'.scroll = calls.scroll + 1

\* C34: in one scroll run the first call carries no token and every later
\* call carries the token that the response just received handed out; a
\* token is recorded as visited when it is sent and has not been sent
\* before, and no token leaves the visited set during the run, so while a
\* call is outstanding the visited set holds exactly the tokens sent, one
\* per call after the first, all distinct.
C34_TokensSentOnce ==
    [][/\ ScrollIssueStep =>
             IF calls.scroll = 0
             THEN /\ inflight'.token = Undefined
                  /\ visitedTokens' = {}
             ELSE /\ pc = "scroll"
                  /\ response'.ok
                  /\ inflight'.token = response'.nextToken
                  /\ inflight'.token \notin {Undefined, EmptyToken}
                  /\ inflight'.token \notin visitedTokens
                  /\ inflight'.token \in visitedTokens'
                  /\ visitedTokens' = visitedTokens \cup {inflight'.token}
       /\ (pc = "scroll") => visitedTokens \subseteq visitedTokens'
       /\ (pc = "scroll")' =>
             /\ Cardinality(visitedTokens') = calls'.scroll - 1
             /\ (inflight.token = Undefined)' <=> (calls.scroll = 1)'
      ]_vars

\* the third scroll call is outstanding with the second token handed out,
\* after the tokens 1 and 2 were sent once each
C34_Witness ==
    /\ pc = "scroll"
    /\ calls.scroll = 3
    /\ inflight.token = 2
    /\ response.nextToken = 2
    /\ visitedTokens = {1, 2}

\* the handler has replied
Replied == pc \in {"done", "caught"}

\* C35: every export whose remote calls all return terminates, whatever the
\* remote answers.  Each strategy stops at 200 calls of its own and POST
\* runs the scroll once and the fallback at most once, so a V1 export
\* issues at most 400 remote calls (200 scroll and 200 fallback calls) and a
\* V2 export at most 201 (one schema listing and 200 paged calls).
C35_ExportTerminates ==
    /\ [](/\ calls.scroll <= 200
          /\ calls.search <= 200
          /\ calls.paged <= 200
          /\ calls.schemas <= 1
          /\ (version = "v1") => (CallsIssued(calls) <= 400 /\ calls.paged = 0
                                    /\ calls.schemas = 0)
          /\ (version = "v2") => (CallsIssued(calls) <= 201 /\ calls.scroll = 0
                                    /\ calls.search = 0))
    /\ <>Replied

\* a V1 export returned after 200 scroll calls, the last of which failed,
\* and 200 fallback calls
C35_Witness ==
    /\ Returned
    /\ version = "v1"
    /\ calls.scroll = 200
    /\ calls.search = 200
    /\ IsError(scrollResult)
    /\ IsSuccess(reply)
    /\ reply.truncated

\* the handler replies with the generic internal error of its catch
InternalErrorReply(r) ==
    /\ r.status = 500
    /\ r.error \in {"Erro ao exportar registros.",
                    "Erro ao consultar registros do MasterData."}

\* an await of the handler throws: the body or a response cannot be parsed,
\* or the transport fails
ThrownStep == ~InternalErrorReply(reply) /\ InternalErrorReply(reply')

\* C36: a failure thrown while the body is read or a remote call of the
\* scroll, the fallback, the paged search or the page query is outstanding
\* ends the request with the generic internal error (status 500): the
\* handler is in its catch, the scroll has no failed result for the
\* fallback to start on, no call is issued by the step, none is
\* outstanding after it, and the handler takes no step after it.
C36_ThrownEndsRequest ==
    [][/\ ThrownStep =>
             /\ pc' = "caught"
             /\ reply'.status = 500
             /\ calls' = calls
             /\ inflight' = NoRequest
             /\ scrollResult' = scrollResult
             /\ (pc = "scroll") => ~IsError(scrollResult')
       /\ (pc = "caught") => (pc' = "caught" /\ calls' = calls /\ reply' = reply)
      ]_vars

\* the scroll threw on its second call and the V1 export ended with the
\* internal error, no fallback call issued
C36_Witness ==
    /\ pc = "caught"
    /\ version = "v1"
    /\ InternalErrorReply(reply)
    /\ calls.scroll = 2
    /\ calls.search = 0
    /\ inflight = NoRequest

\* the requests the table counts for the key in its window
Counted(table, key) == IF key \in DOMAIN table THEN table[key].count ELSE 0

\* the handler reads and validates the body
BodyStep == pc \in {"body", "docBody"}

\* C37: in both entry points the rate-limit check comes first.  The step
\* that takes a request checks the bucket of its route and client and
\* leaves the body unread; while the bucket counts fewer requests than the
\* limit (30 for the export, 120 for the page query) the request is counted
\* and goes on to its body, else it is denied with 429 and the table stays
\* as it was.  The body is read only after an allowed check, and a request
\* rejected there (400) or whose body does not parse (500) leaves the count
\* it has raised in place.  So of the requests of a client that sends only
\* invalid ones, the first 30 (120) in the window are rejected as invalid
\* and every later one is denied.
C37_CheckComesFirst ==
    [][/\ RequestStep =>
             LET k == lastCheck'.key
                 limit == IF k[1] = "export" THEN 30 ELSE 120
             IN /\ PostExport(InvalidClient) => k = <<"export", "10.0.0.1">>
                /\ PostDocuments(InvalidClient) => k = <<"documents", "10.0.0.1">>
                /\ body' = body
                /\ IF Counted(rateLimitStore, k) < limit
                   THEN /\ pc' = (IF k[1] = "export" THEN "body" ELSE "docBody")
                        /\ Counted(rateLimitStore', k) = Counted(rateLimitStore, k) + 1
                        /\ reply' = reply
                   ELSE /\ pc' = "done"
                        /\ reply'.status = 429
                        /\ rateLimitStore' = rateLimitStore
                /\ admitted'[k] = Counted(rateLimitStore', k)
       /\ BodyStep =>
             /\ lastCheck.allowed
             /\ Counted(rateLimitStore, lastCheck.key) >= 1
             /\ rateLimitStore' = rateLimitStore
             /\ pc' \in {"done", "caught"}
             /\ reply'.status = (IF pc' = "done" THEN 400 ELSE 500)
             /\ calls' = calls
       /\ ~BodyStep => body' = body
      ]_vars

\* the client's 31st export in the window is denied: the 30 before it were
\* all counted, and the last of them was rejected by the validation
C37_Witness ==
    /\ pc = "done"
    /\ reply.status = 429
    /\ ~lastCheck.allowed
    /\ lastCheck.key = <<"export", "10.0.0.1">>
    /\ Counted(rateLimitStore, lastCheck.key) = 30
    /\ admitted[lastCheck.key] = 30
    /\ body \in InvalidBodies
    /\ calls = NoCalls

\* the call runs the sweep: it increments a live entry that is below its
\* limit and leaves the table with more than 1000 keys
SweepRuns ==
    /\ LiveEntry
    /\ rateLimitStore[lastCheck'.key].count < lastCheck'.maxRequests
    /\ Cardinality(DOMAIN rateLimitStore) > SWEEP_THRESHOLD

\* C38: a checkRateLimit call, sweeping or not, leaves every entry of
\* another key that is still inside its window (resetAt > now) in the
\* table with count and resetAt unchanged; an entry of another key it
\* removes has resetAt <= now, and the call adds no key but the checked
\* one.  The entry of the checked key is in the table after the call and
\* inside its window; if it was inside its window before, it keeps its
\* resetAt and its count grows by one when the call is allowed and not at
\* all when it is denied.  A call that does not sweep leaves the entries of
\* all the other keys as they were.
C38_SweepKeepsLiveEntries ==
    [][CheckStep =>
         LET key == lastCheck'.key IN
         /\ \A k \in DOMAIN rateLimitStore \ {key} :
               IF rateLimitStore[k].resetAt > now \/ ~SweepRuns
               THEN k \in DOMAIN rateLimitStore' /\ rateLimitStore'[k] = rateLimitStore[k]
               ELSE k \in DOMAIN rateLimitStore' => rateLimitStore'[k] = rateLimitStore[k]
         /\ DOMAIN rateLimitStore' \subseteq DOMAIN rateLimitStore \cup {key}
         /\ key \in DOMAIN rateLimitStore'
         /\ rateLimitStore'[key].resetAt > now
         /\ LiveEntry =>
               /\ rateLimitStore'[key].resetAt = rateLimitStore[key].resetAt
               /\ rateLimitStore'[key].count =
                     rateLimitStore[key].count + (IF lastCheck'.allowed THEN 1 ELSE 0)
    ]_vars

\* a sweep has just deleted the elapsed entries of the other clients: the
\* entry of the client whose window is still open and the incremented entry
\* of the checked key are what is left
C38_Witness ==
    /\ lastCheck.key # NoKey
    /\ lastCheck.at = now
    /\ lastCheck.inWindow
    /\ lastCheck.allowed
    /\ DOMAIN rateLimitStore = {lastCheck.key, OtherKey(1)}
    /\ rateLimitStore[OtherKey(1)] = [count |-> 1, resetAt |-> MaxTime + 1]
    /\ rateLimitStore[lastCheck.key].count = 2
    /\ rateLimitStore[lastCheck.key].resetAt > now

\* the header is present and numeric: it has a value that converts to a
\* finite number
Numeric(header) ==
    header.present /\ header.text # << >> /\ NumberOf(header.text).finite

\* the text after the final "/" of the header, << >> where there is none
AfterFinalSlash(header) ==
    LET slashes == {i \in 1..Len(header.text) : header.text[i] = 47}
    IN IF slashes = {} THEN << >>
       ELSE LET last == CHOOSE i \in slashes : \A j \in slashes : j <= i
            IN SubSeq(header.text, last + 1, Len(header.text))

\* the text is a decimal integer
IsInteger(text) == text # << >> /\ \A i \in 1..Len(text) : text[i] \in 48..57

\* what C40 has the extractor return
ExpectedTotal(headers) ==
    IF Numeric(headers.mdTotal) THEN Total(NumberOf(headers.mdTotal.text).n)
    ELSE IF IsInteger(AfterFinalSlash(headers.contentRange))
    THEN Total(Numeral(AfterFinalSlash(headers.contentRange), 10))
    ELSE NoTotal

\* a total has been read from the headers of a response
TotalRead == pc \in {"search", "docFirst"}

\* C40: the total read from a response is the value of x-vtex-md-total
\* whenever that header is present and numeric, whatever rest-content-range
\* says; otherwise it is the integer after the final "/" of
\* rest-content-range, and unknown when neither header yields a number.
\* The copy of the export and that of the page query return the same for
\* every combination of the two headers.
C40_TotalFromHeaders ==
    TotalRead =>
        /\ queryResult.total = ExpectedTotal(response.headers)
        /\ ExportTotal(response.headers) = DocumentsTotal(response.headers)

\* the page query read 7 from x-vtex-md-total: 7 while rest-content-range
\* ended in /70
C40_Witness ==
    /\ pc = "docFirst"
    /\ response.headers.mdTotal = HeaderValue(<<55>>)
    /\ response.headers.contentRange = HeaderValue(<<47, 55, 48>>)
    /\ queryResult.total = Total(7)

====
